---------------------------- MODULE Spec2Model ----------------------------
(***************************************************************************)
(* Book recommendation engine: the find-similar handler (single reference  *)
(* book), the recommendations handler (reading history), their shared      *)
(* helpers (deduplication, scoring, assembling) as they are written in     *)
(* src/api/find-similar.js and api/recommendations.js (src/unnamed/part_002)*)
(*                                                                         *)
(* JavaScript strings are TLA+ strings; the string methods the code uses   *)
(* (toLowerCase, trim, includes, replace, RegExp test/match, split) are    *)
(* operators that compute character by character.                          *)
(* Ratings are kept in tenths (4.2 is 42) so that they stay integers.      *)
(***************************************************************************)
EXTENDS Integers, Sequences, FiniteSets, TLC

VARIABLES
    mode,         \* which program runs: "handler", "library", "dedupe", "score"
    handlerName,  \* "find-similar" or "recommendations" ("none" otherwise)
    req,          \* the request: [method, body]
    nytKey,       \* process.env.NYT_BOOKS_API_KEY is set
    pc,           \* position of the handler
    profile,      \* userProfile
    qi,           \* index of the next query of the adapter loop in progress
    nytBooks, awardBooks, criticsBooks, googleBooks,
    allBooks,     \* the merged candidate list
    uniqueBooks,  \* the deduplicated list
    scoredBooks,  \* the scored list, before the cutoff
    recs,         \* what findPremiumRecommendations / generatePersonalizedRecommendations returned
    usedFallback, \* the static fallback table was returned
    res,          \* the responses sent: sequence of [status, body]
    log,          \* outbound events: <<"fetch", provider, query>>, <<"delay", provider>>
    hits,         \* number of upstream responses that carried items, per provider
    failures,     \* number of upstream queries that failed
    readwiseToken,        \* process.env.READWISE_API_TOKEN is set
    booksData,            \* the parsed answer of the reading-history provider
    libraryBooks,         \* recentBooks of the readwise handler: the entries it kept
    booksWithHighlights,  \* the kept entries with their highlights
    bi,                   \* index of the next entry of the highlights loop
    step,                 \* the client's step: "start", "selecting", "recommendations"
    readwiseBooks,        \* the client's random selection
    error,                \* the client's error, [message], or null
    loading,              \* the client's loading flag
    selectedBook,         \* the book the client asked recommendations for, or null
    recommendations,      \* the recommendations the client displays
    inflight,             \* the client's requests that have not been answered
    started               \* number of requests the client has started

\* the state of the library fetch: api/readwise.js and fetchRandomBooks
libVars == <<readwiseToken, booksData, libraryBooks, booksWithHighlights, bi,
             step, readwiseBooks, error, loading, selectedBook, recommendations,
             inflight, started>>

\* the client's state that the library fetch does not touch
uiVars == <<selectedBook, recommendations, inflight, started>>

vars == <<mode, handlerName, req, nytKey, pc, profile, qi, nytBooks, awardBooks,
          criticsBooks, googleBooks, allBooks, uniqueBooks, scoredBooks, recs,
          usedFallback, res, log, hits, failures, libVars>>

(***************************************************************************)
(* Bounds of the model.                                                    *)
(***************************************************************************)
MaxNytHits == 1       \* bestseller responses with books, per request
MaxGoogleHits == 1    \* search responses with items, per request
MaxFailures == 1      \* failing upstream queries, per request
MaxListLen == 3       \* length of the candidate lists given to dedupe alone

(***************************************************************************)
(* JavaScript values.                                                      *)
(***************************************************************************)
\* undefined / a missing property; never a value of an input string
Undefined == "<undefined>"
\* NaN, as the result of a date that does not parse
NaN == -1

\* `${v}` in a template literal
Str(v) == IF v = Undefined THEN "undefined" ELSE v

Min(a, b) == IF a < b THEN a ELSE b
Max(a, b) == IF a > b THEN a ELSE b

UpperToLower ==
    [c \in {"A","B","C","D","E","F","G","H","I","J","K","L","M","N","O","P","Q",
            "R","S","T","U","V","W","X","Y","Z"} |->
       CASE c = "A" -> "a" [] c = "B" -> "b" [] c = "C" -> "c" [] c = "D" -> "d"
         [] c = "E" -> "e" [] c = "F" -> "f" [] c = "G" -> "g" [] c = "H" -> "h"
         [] c = "I" -> "i" [] c = "J" -> "j" [] c = "K" -> "k" [] c = "L" -> "l"
         [] c = "M" -> "m" [] c = "N" -> "n" [] c = "O" -> "o" [] c = "P" -> "p"
         [] c = "Q" -> "q" [] c = "R" -> "r" [] c = "S" -> "s" [] c = "T" -> "t"
         [] c = "U" -> "u" [] c = "V" -> "v" [] c = "W" -> "w" [] c = "X" -> "x"
         [] c = "Y" -> "y" [] c = "Z" -> "z"]

CharAt(s, i) == SubSeq(s, i, i)

\* String.prototype.toLowerCase
\* (the string is halved so that the evaluation stays shallow)
RECURSIVE ToLowerCase(_)
ToLowerCase(s) ==
    IF Len(s) = 0 THEN ""
    ELSE IF Len(s) = 1
    THEN (IF s \in DOMAIN UpperToLower THEN UpperToLower[s] ELSE s)
    ELSE ToLowerCase(SubSeq(s, 1, Len(s) \div 2))
           \o ToLowerCase(SubSeq(s, Len(s) \div 2 + 1, Len(s)))

IsSpace(c) == c \in {" ", "\t", "\n", "\r"}

\* String.prototype.trim
RECURSIVE TrimStart(_)
TrimStart(s) ==
    IF Len(s) > 0 /\ IsSpace(CharAt(s, 1)) THEN TrimStart(SubSeq(s, 2, Len(s))) ELSE s
RECURSIVE TrimEnd(_)
TrimEnd(s) ==
    IF Len(s) > 0 /\ IsSpace(CharAt(s, Len(s))) THEN TrimEnd(SubSeq(s, 1, Len(s) - 1)) ELSE s
Trim(s) == TrimEnd(TrimStart(s))

\* String.prototype.includes
Includes(s, t) ==
    \E i \in 1..(Len(s) - Len(t) + 1) : SubSeq(s, i, i + Len(t) - 1) = t

\* String.prototype.replace with a string pattern: the first occurrence only
FirstIndexOf(s, t) ==
    IF Includes(s, t)
    THEN CHOOSE i \in 1..(Len(s) - Len(t) + 1) :
           /\ SubSeq(s, i, i + Len(t) - 1) = t
           /\ \A j \in 1..(i - 1) : SubSeq(s, j, j + Len(t) - 1) # t
    ELSE 0
Replace(s, from, to) ==
    LET i == FirstIndexOf(s, from)
    IN  IF i = 0 THEN s
        ELSE SubSeq(s, 1, i - 1) \o to \o SubSeq(s, i + Len(from), Len(s))

(***************************************************************************)
(* Deduplicator.                                                           *)
(***************************************************************************)
\* book.title.toLowerCase() on a missing title is a TypeError
DedupeThrows(books) ==
    \E i \in 1..Len(books) :
        books[i].title = Undefined \/ books[i].author = Undefined

\* a key that lower-cases but does not trim
DedupeKeyUntrimmed(book) ==
    ToLowerCase(book.title) \o "-" \o ToLowerCase(book.author)

\* the identity key of removeDuplicates / removeDuplicateBooks
DedupeKey(book) ==
    Trim(ToLowerCase(book.title)) \o "-" \o Trim(ToLowerCase(book.author))

\* keeps, of every later duplicate, the duplicate instead of the first
RemoveDuplicatesInverted(books) ==
    LET keep(i) == \E j \in 1..(i - 1) : DedupeKey(books[j]) = DedupeKey(books[i])
        F[i \in 0..Len(books)] ==
            IF i = 0 THEN <<>>
            ELSE IF keep(i) THEN Append(F[i - 1], books[i]) ELSE F[i - 1]
    IN  F[Len(books)]

\* removeDuplicates: the filter keeps a book iff its key was not seen before
RemoveDuplicates(books) ==
    LET keep(i) == \A j \in 1..(i - 1) : DedupeKey(books[j]) # DedupeKey(books[i])
        F[i \in 0..Len(books)] ==
            IF i = 0 THEN <<>>
            ELSE IF keep(i) THEN Append(F[i - 1], books[i]) ELSE F[i - 1]
    IN  F[Len(books)]

(***************************************************************************)
(* Regular expressions of the code: alternations of literals in which "."  *)
(* matches any one character that is not a line terminator.                *)
(***************************************************************************)
AltMatchesAt(s, i, alt) ==
    /\ i + Len(alt) - 1 <= Len(s)
    /\ \A k \in 1..Len(alt) :
         IF CharAt(alt, k) = "." THEN CharAt(s, i + k - 1) \notin {"\n", "\r"}
         ELSE CharAt(s, i + k - 1) = CharAt(alt, k)

\* RegExp.prototype.test (flag i: the subjects are already lower-cased)
RegexTest(alts, s) ==
    \E a \in 1..Len(alts) : \E i \in 1..Len(s) : AltMatchesAt(s, i, alts[a])

\* length of the match at position i: the first alternative that matches, 0 if none
MatchLenAt(alts, s, i) ==
    IF \E a \in 1..Len(alts) : AltMatchesAt(s, i, alts[a])
    THEN Len(alts[CHOOSE a \in 1..Len(alts) :
                    /\ AltMatchesAt(s, i, alts[a])
                    /\ \A b \in 1..(a - 1) : ~AltMatchesAt(s, i, alts[b])])
    ELSE 0

\* String.prototype.match with flag g: the number of non-overlapping matches
\* (the scan resumes right after each match, at the next position that matches)
RECURSIVE MatchCountFrom(_, _, _)
MatchCountFrom(alts, s, i) ==
    LET starts == {j \in i..Len(s) : MatchLenAt(alts, s, j) > 0}
    IN  IF starts = {} THEN 0
        ELSE LET j == CHOOSE j \in starts : \A k \in starts : j <= k
             IN  1 + MatchCountFrom(alts, s, j + MatchLenAt(alts, s, j))
MatchCount(alts, s) == MatchCountFrom(alts, s, 1)

IsWordChar(c) ==
    c \in {"a","b","c","d","e","f","g","h","i","j","k","l","m","n","o","p","q",
           "r","s","t","u","v","w","x","y","z","0","1","2","3","4","5","6","7",
           "8","9","_"} \/ c \in DOMAIN UpperToLower

\* .replace(/[^\w\s]/g, ' ')
RECURSIVE ReplaceNonWord(_)
ReplaceNonWord(s) ==
    IF Len(s) = 0 THEN ""
    ELSE IF Len(s) = 1
    THEN (IF IsWordChar(s) \/ IsSpace(s) THEN s ELSE " ")
    ELSE ReplaceNonWord(SubSeq(s, 1, Len(s) \div 2))
           \o ReplaceNonWord(SubSeq(s, Len(s) \div 2 + 1, Len(s)))

\* .split(/\s+/): the pieces between the runs of white space
\* (a separator at the start or at the end gives an empty piece there)
SplitWhitespace(s) ==
    LET n == Len(s)
        starts == {i \in 1..n : ~IsSpace(CharAt(s, i))
                                  /\ (i = 1 \/ IsSpace(CharAt(s, i - 1)))}
        EndOf(i) == CHOOSE j \in i..n :
                      /\ \A k \in i..j : ~IsSpace(CharAt(s, k))
                      /\ (j = n \/ IsSpace(CharAt(s, j + 1)))
        Nth(k) == CHOOSE i \in starts : Cardinality({h \in starts : h < i}) = k - 1
        words == [k \in 1..Cardinality(starts) |-> SubSeq(s, Nth(k), EndOf(Nth(k)))]
    IN  IF n = 0 THEN <<"">>
        ELSE (IF IsSpace(CharAt(s, 1)) THEN <<"">> ELSE <<>>)
               \o words
               \o (IF IsSpace(CharAt(s, n)) /\ starts # {} THEN <<"">> ELSE <<>>)

\* Array.prototype.filter and slice(0, n)
SeqFilter(seq, Keep(_)) ==
    LET F[i \in 0..Len(seq)] ==
            IF i = 0 THEN <<>>
            ELSE IF Keep(seq[i]) THEN Append(F[i - 1], seq[i]) ELSE F[i - 1]
    IN  F[Len(seq)]
Slice(seq, n) == SubSeq(seq, 1, Min(n, Len(seq)))

SeqContains(seq, x) == \E i \in 1..Len(seq) : seq[i] = x

(***************************************************************************)
(* Dates.  new Date(s) of the date strings the providers send: "YYYY",     *)
(* "YYYY-MM" and "YYYY-MM-DD" (read as UTC, the handlers run in UTC); any  *)
(* other string is an Invalid Date, whose getters return NaN.              *)
(***************************************************************************)
DigitVal ==
    [c \in {"0","1","2","3","4","5","6","7","8","9"} |->
       CASE c = "0" -> 0 [] c = "1" -> 1 [] c = "2" -> 2 [] c = "3" -> 3
         [] c = "4" -> 4 [] c = "5" -> 5 [] c = "6" -> 6 [] c = "7" -> 7
         [] c = "8" -> 8 [] c = "9" -> 9]

IsDigits(s) == \A i \in 1..Len(s) : CharAt(s, i) \in DOMAIN DigitVal

RECURSIVE ParseInt(_)
ParseInt(s) ==
    IF Len(s) = 0 THEN 0
    ELSE 10 * ParseInt(SubSeq(s, 1, Len(s) - 1)) + DigitVal[CharAt(s, Len(s))]

DigitChar(d) == CHOOSE c \in DOMAIN DigitVal : DigitVal[c] = d

RECURSIVE NumToStr(_)
NumToStr(n) ==
    IF n < 10 THEN DigitChar(n) ELSE NumToStr(n \div 10) \o DigitChar(n % 10)

InvalidDate == [valid |-> FALSE, y |-> 0, m |-> 0, d |-> 0]

NewDate(s) ==
    IF s = Undefined THEN InvalidDate
    ELSE IF Len(s) = 4 /\ IsDigits(s)
    THEN [valid |-> TRUE, y |-> ParseInt(s), m |-> 1, d |-> 1]
    ELSE IF /\ Len(s) = 7 /\ IsDigits(SubSeq(s, 1, 4)) /\ CharAt(s, 5) = "-"
            /\ IsDigits(SubSeq(s, 6, 7)) /\ ParseInt(SubSeq(s, 6, 7)) \in 1..12
    THEN [valid |-> TRUE, y |-> ParseInt(SubSeq(s, 1, 4)),
          m |-> ParseInt(SubSeq(s, 6, 7)), d |-> 1]
    ELSE IF /\ Len(s) = 10 /\ IsDigits(SubSeq(s, 1, 4)) /\ CharAt(s, 5) = "-"
            /\ IsDigits(SubSeq(s, 6, 7)) /\ ParseInt(SubSeq(s, 6, 7)) \in 1..12
            /\ CharAt(s, 8) = "-" /\ IsDigits(SubSeq(s, 9, 10))
            /\ ParseInt(SubSeq(s, 9, 10)) \in 1..31
    THEN [valid |-> TRUE, y |-> ParseInt(SubSeq(s, 1, 4)),
          m |-> ParseInt(SubSeq(s, 6, 7)), d |-> ParseInt(SubSeq(s, 9, 10))]
    ELSE InvalidDate

\* Date.prototype.getFullYear; NaN for an Invalid Date
GetFullYear(date) == IF date.valid THEN date.y ELSE NaN
\* Date.prototype.getMonth (0-based); NaN for an Invalid Date
GetMonth(date) == IF date.valid THEN date.m - 1 ELSE NaN
\* the time value of a date, in days (order-preserving)
TimeValue(date) == (date.y * 12 + (date.m - 1)) * 31 + (date.d - 1)

\* a property that may be missing
Has(obj, f) == f \in DOMAIN obj
Get(obj, f) == IF f \in DOMAIN obj THEN obj[f] ELSE Undefined
\* { ...a, ...b }
Merge(a, b) == [f \in DOMAIN a \cup DOMAIN b |-> IF f \in DOMAIN b THEN b[f] ELSE a[f]]

(***************************************************************************)
(* find-similar.js: the Text Profiler of the single-reference flow.        *)
(***************************************************************************)
genrePatterns == <<
    [name |-> "literary_fiction",
     alts |-> <<"literary", "fiction", "novel", "story", "narrative", "contemporary.fiction">>],
    [name |-> "memoir",
     alts |-> <<"memoir", "autobiography", "personal.story", "life.story", "growing.up", "childhood">>],
    [name |-> "business",
     alts |-> <<"business", "entrepreneur", "startup", "management", "leadership", "strategy", "corporate", "finance", "economics">>],
    [name |-> "psychology",
     alts |-> <<"psychology", "behavior", "mental", "cognitive", "mind", "brain", "therapy", "consciousness", "neuroscience">>],
    [name |-> "self_help",
     alts |-> <<"self.help", "improvement", "productivity", "success", "motivation", "habits", "personal.development", "mindfulness">>],
    [name |-> "history",
     alts |-> <<"history", "historical", "war", "empire", "civilization", "politics", "government", "democracy", "society">>],
    [name |-> "science",
     alts |-> <<"science", "research", "physics", "biology", "chemistry", "mathematics", "technology", "innovation", "climate">>],
    [name |-> "philosophy",
     alts |-> <<"philosophy", "ethics", "meaning", "existence", "wisdom", "truth", "morality", "consciousness", "spiritual">>],
    [name |-> "biography",
     alts |-> <<"biography", "life.of", "story.of", "profile.of", "portrait.of">>],
    [name |-> "current_affairs",
     alts |-> <<"politics", "current", "affairs", "news", "journalism", "social.issues", "contemporary">>],
    [name |-> "health",
     alts |-> <<"health", "fitness", "nutrition", "exercise", "wellness", "medical", "diet", "mental.health">>],
    [name |-> "culture",
     alts |-> <<"culture", "cultural", "art", "music", "film", "society", "social", "anthropology", "sociology">>],
    [name |-> "economics",
     alts |-> <<"economics", "economic", "economy", "market", "capitalism", "trade", "wealth", "inequality", "financial">>],
    [name |-> "environment",
     alts |-> <<"environment", "climate", "sustainability", "global.warming", "ecology", "conservation", "nature">>],
    [name |-> "technology",
     alts |-> <<"technology", "digital", "ai", "artificial.intelligence", "computer", "internet", "tech", "innovation">>],
    [name |-> "travel",
     alts |-> <<"travel", "journey", "adventure", "place", "country", "city", "culture", "exploration">>],
    [name |-> "food",
     alts |-> <<"food", "cooking", "chef", "cuisine", "restaurant", "recipe", "culinary", "eating">>],
    [name |-> "sports",
     alts |-> <<"sport", "athletic", "competition", "game", "player", "team", "coaching">>] >>

stylePatterns == <<
    [name |-> "narrative_nonfiction",
     alts |-> <<"story", "narrative", "tells.the.story", "recounts", "chronicles">>],
    [name |-> "analytical",
     alts |-> <<"analysis", "examines", "explores", "investigates", "argues", "theory">>],
    [name |-> "practical",
     alts |-> <<"how.to", "guide", "steps", "practical", "actionable", "method", "technique">>],
    [name |-> "academic",
     alts |-> <<"research", "study", "academic", "scholarly", "university", "professor">>],
    [name |-> "journalistic",
     alts |-> <<"journalist", "reporter", "investigation", "reporting", "news">>],
    [name |-> "conversational",
     alts |-> <<"accessible", "readable", "engaging", "clear", "simple">>] >>

commonWords == {
    "that", "this", "with", "have", "will", "been", "from", "they", "know",
    "want", "good", "much", "some", "time", "very", "when", "come", "here",
    "just", "like", "long", "make", "many", "over", "such", "take", "than",
    "them", "well", "were", "what", "also", "back", "after", "use", "two",
    "how", "our", "work", "first", "way", "even", "new", "would", "any",
    "these", "give", "day", "most", "book", "books", "read", "reading",
    "author", "write", "written", "chapter", "page", "pages" }

isCommonWord(word) == word \in commonWords

\* the names of the patterns that match, in the order of the table
MatchingNames(table, content) ==
    LET F[i \in 0..Len(table)] ==
            IF i = 0 THEN <<>>
            ELSE IF RegexTest(table[i].alts, content)
                 THEN Append(F[i - 1], table[i].name) ELSE F[i - 1]
    IN  F[Len(table)]

\* lines 99-107: the theme words of the notes
ThemeWords(notes) ==
    IF notes # Undefined /\ Len(notes) > 100
    THEN LET IsTheme(word) == Len(word) > 5 /\ ~isCommonWord(word)
         IN  Slice(SeqFilter(SplitWhitespace(ReplaceNonWord(ToLowerCase(notes))),
                             IsTheme), 8)
    ELSE <<>>

\* lines 40-115
analyzeReferenceBook(book) ==
    LET content == ToLowerCase(Str(Get(book, "title")) \o " " \o Str(Get(book, "author"))
                                 \o " " \o Str(Get(book, "notes")))
        genres == MatchingNames(genrePatterns, content)
    IN  [originalBook |-> book,
         genres |-> IF Len(genres) = 0 THEN <<"general">> ELSE genres,
         themes |-> ThemeWords(Get(book, "notes")),
         writingStyle |-> MatchingNames(stylePatterns, content)]

(***************************************************************************)
(* find-similar.js: the candidate source adapters.                         *)
(***************************************************************************)
\* lines 172-189: the bestseller lists to check, at most 3
ListsToCheck(p) ==
    LET has(g) == SeqContains(p.genres, g)
        l1 == IF has("literary_fiction") \/ has("memoir")
              THEN <<"combined-print-and-e-book-fiction",
                     "combined-print-and-e-book-nonfiction">>
              ELSE <<>>
        l2 == IF has("business") THEN <<"business-books">> ELSE <<>>
        l3 == IF has("science") \/ has("history") THEN <<"science", "history">> ELSE <<>>
        l  == l1 \o l2 \o l3
    IN  Slice(IF Len(l) = 0
              THEN <<"combined-print-and-e-book-nonfiction",
                     "combined-print-and-e-book-fiction">>
              ELSE l, 3)

\* a || b for strings: undefined and "" are falsy
OrElse(v, dflt) == IF v = Undefined \/ v = "" THEN dflt ELSE v

\* lines 203-212: the candidate made of one entry of a bestseller list
NytCandidate(book) ==
    [title |-> Get(book, "title"),
     author |-> Get(book, "author"),
     description |-> Get(book, "description"),
     publishedDate |-> OrElse(Get(book, "published_date"), "2024"),
     source |-> "NYT Bestseller",
     averageRating |-> 42,
     thumbnail |-> Get(book, "book_image"),
     amazonUrl |-> Get(book, "amazon_product_url")]

\* an entry of an upstream array that is null: reading a property of it throws
Null == [null |-> TRUE]

\* the index of the first null entry of a list, 0 if none
FirstNull(entries) ==
    IF \E i \in 1..Len(entries) : entries[i] = Null
    THEN CHOOSE i \in 1..Len(entries) :
           entries[i] = Null /\ \A j \in 1..(i - 1) : entries[j] # Null
    ELSE 0

\* lines 201-214: the candidates pushed for one parsed bestseller payload,
\* and whether the forEach threw
NytProcess(data) ==
    IF Has(data, "results") /\ Has(data.results, "books")
    THEN LET entries == Slice(data.results.books, 10)
             n == FirstNull(entries)
             upto == IF n = 0 THEN Len(entries) ELSE n - 1
         IN  [books |-> [i \in 1..upto |-> NytCandidate(entries[i])],
              threw |-> n # 0]
    ELSE [books |-> <<>>, threw |-> FALSE]

awardBooksTable == <<
    [title |-> "Orbital",
     author |-> "Samantha Harvey",
     description |-> "A luminous meditation on space, time, and human connection as seen from the International Space Station.",
     publishedDate |-> "2023",
     source |-> "Booker Prize Winner 2024",
     averageRating |-> 41,
     genre |-> "literary_fiction"],
    [title |-> "Creation Lake",
     author |-> "Rachel Kushner",
     description |-> "A provocative novel about an American spy infiltrating an environmental activist group in rural France.",
     publishedDate |-> "2024",
     source |-> "Booker Prize Shortlist 2024",
     averageRating |-> 40,
     genre |-> "literary_fiction"],
    [title |-> "James",
     author |-> "Percival Everett",
     description |-> "A brilliant reimagining of Huckleberry Finn from Jim's perspective, exploring themes of freedom and identity.",
     publishedDate |-> "2024",
     source |-> "Booker Prize Shortlist 2024",
     averageRating |-> 43,
     genre |-> "literary_fiction"],
    [title |-> "Night Watch",
     author |-> "Jayne Anne Phillips",
     description |-> "A sweeping novel about a young woman working as a nurse during the Civil War.",
     publishedDate |-> "2023",
     source |-> "Pulitzer Prize Fiction 2024",
     averageRating |-> 42,
     genre |-> "literary_fiction"],
    [title |-> "The Safekeep",
     author |-> "Yael van der Wouden",
     description |-> "A taut psychological drama set in post-war Netherlands exploring desire, memory, and secrets.",
     publishedDate |-> "2024",
     source |-> "National Book Award Fiction 2024",
     averageRating |-> 41,
     genre |-> "literary_fiction"],
    [title |-> "Master Slave Husband Wife",
     author |-> "Ilyon Woo",
     description |-> "The true story of Ellen and William Craft's daring escape from slavery in 1848 Georgia.",
     publishedDate |-> "2023",
     source |-> "National Book Award Nonfiction 2023",
     averageRating |-> 44,
     genre |-> "history"],
    [title |-> "The Wager",
     author |-> "David Grann",
     description |-> "A gripping tale of shipwreck, survival, and mutiny in the eighteenth century.",
     publishedDate |-> "2023",
     source |-> "Pulitzer Prize Nonfiction 2024",
     averageRating |-> 43,
     genre |-> "history"],
    [title |-> "The Creative Act",
     author |-> "Rick Rubin",
     description |-> "A guide to creativity from one of the most successful music producers of all time.",
     publishedDate |-> "2023",
     source |-> "Critics' Choice",
     averageRating |-> 42,
     genre |-> "self_help"],
    [title |-> "The Power of Knowing What You Don't Know",
     author |-> "Adam Grant",
     description |-> "A psychologist explores the benefits of doubt and the dangers of overconfidence.",
     publishedDate |-> "2024",
     source |-> "Business Bestseller",
     averageRating |-> 41,
     genre |-> "psychology"],
    [title |-> "The Heaven & Earth Grocery Store",
     author |-> "James McBride",
     description |-> "A novel about a Jewish family who runs a grocery store in a Black neighborhood in 1920s-1960s America.",
     publishedDate |-> "2023",
     source |-> "Oprah's Book Club",
     averageRating |-> 42,
     genre |-> "literary_fiction"],
    [title |-> "The Atlas of Irish Country Life",
     author |-> "John Feehan",
     description |-> "A comprehensive exploration of traditional Irish rural life and culture.",
     publishedDate |-> "2024",
     source |-> "Cultural Critics Choice",
     averageRating |-> 40,
     genre |-> "culture"] >>

\* lines 344-350
getCuratedAwardBooks(p) ==
    LET Matches(book) ==
            \E i \in 1..Len(p.genres) :
                \/ p.genres[i] = book.genre
                \/ (p.genres[i] = "memoir" /\ book.genre = "biography")
                \/ (p.genres[i] = "current_affairs" /\ book.genre = "history")
    IN  SeqFilter(awardBooksTable, Matches)

criticsBooksTable == <<
    [title |-> "Fourth Wing",
     author |-> "Rebecca Yarros",
     description |-> "A fantasy romance about a dragon rider academy that became a viral sensation.",
     publishedDate |-> "2024",
     source |-> "Goodreads Choice Award",
     averageRating |-> 44,
     genre |-> "literary_fiction"],
    [title |-> "Tomorrow, and Tomorrow, and Tomorrow",
     author |-> "Gabrielle Zevin",
     description |-> "A novel about friendship, love, art, and identity in the world of video game design.",
     publishedDate |-> "2023",
     source |-> "Time Magazine Best Books",
     averageRating |-> 43,
     genre |-> "literary_fiction"],
    [title |-> "Demon Copperhead",
     author |-> "Barbara Kingsolver",
     description |-> "A modern retelling of David Copperfield set in Appalachian Virginia.",
     publishedDate |-> "2023",
     source |-> "Pulitzer Prize Fiction 2023",
     averageRating |-> 45,
     genre |-> "literary_fiction"] >>

\* lines 385-387
getCriticsPicks(p) ==
    LET Matches(book) ==
            SeqContains(p.genres, book.genre) \/ SeqContains(p.genres, "general")
    IN  SeqFilter(criticsBooksTable, Matches)

\* lines 394-402: the search terms, at most 3
RECURSIVE TermsOf(_)
TermsOf(genres) ==
    IF genres = <<>> THEN <<>>
    ELSE LET g == Replace(Head(genres), "_", " ")
         IN  <<g \o " 2024 award winner", g \o " 2024 prize", "best " \o g \o " 2024">>
               \o TermsOf(Tail(genres))
SearchTerms(p) == Slice(TermsOf(p.genres), 3)

\* lines 417-423: the quality filter of the curated search
CuratedAccepts(volumeInfo) ==
    LET hasGoodRating == Has(volumeInfo, "averageRating") /\ volumeInfo.averageRating >= 40
        hasReviews == Has(volumeInfo, "ratingsCount") /\ volumeInfo.ratingsCount >= 50
        recentBook == /\ OrElse(Get(volumeInfo, "publishedDate"), "") # ""
                      /\ NewDate(volumeInfo.publishedDate).valid
                      /\ GetFullYear(NewDate(volumeInfo.publishedDate)) >= 2022
        hasDescription == /\ OrElse(Get(volumeInfo, "description"), "") # ""
                          /\ Len(volumeInfo.description) > 150
    IN  hasGoodRating /\ hasReviews /\ recentBook /\ hasDescription

\* volumeInfo.authors?.[0]
FirstAuthor(volumeInfo) ==
    IF Has(volumeInfo, "authors") /\ Len(volumeInfo.authors) > 0
    THEN volumeInfo.authors[1] ELSE Undefined

\* lines 424-432
CuratedCandidate(volumeInfo) ==
    [title |-> Get(volumeInfo, "title"),
     author |-> OrElse(FirstAuthor(volumeInfo), "Unknown Author"),
     description |-> volumeInfo.description,
     publishedDate |-> volumeInfo.publishedDate,
     source |-> "Curated Selection",
     averageRating |-> volumeInfo.averageRating,
     thumbnail |-> IF Has(volumeInfo, "imageLinks")
                   THEN Get(volumeInfo.imageLinks, "thumbnail") ELSE Undefined]

\* an item without volumeInfo: reading volumeInfo.averageRating throws
ItemThrows(item) == item = Null \/ ~Has(item, "volumeInfo")

FirstThrowing(items) ==
    IF \E i \in 1..Len(items) : ItemThrows(items[i])
    THEN CHOOSE i \in 1..Len(items) :
           ItemThrows(items[i]) /\ \A j \in 1..(i - 1) : ~ItemThrows(items[j])
    ELSE 0

\* lines 412-435: the candidates pushed for one parsed search payload, and
\* whether the loop threw
CuratedProcess(data) ==
    IF Has(data, "items")
    THEN LET n == FirstThrowing(data.items)
             upto == IF n = 0 THEN Len(data.items) ELSE n - 1
             F[i \in 0..upto] ==
                 IF i = 0 THEN <<>>
                 ELSE IF CuratedAccepts(data.items[i].volumeInfo)
                      THEN Append(F[i - 1], CuratedCandidate(data.items[i].volumeInfo))
                      ELSE F[i - 1]
         IN  [books |-> F[upto], threw |-> n # 0]
    ELSE [books |-> <<>>, threw |-> FALSE]

(***************************************************************************)
(* find-similar.js: the Scorer and the Assembler.                          *)
(***************************************************************************)
\* a lookup that gives a critics' pick no points
SourcePointsNoCritics(source) ==
    IF Includes(source, "Pulitzer") THEN 10
    ELSE IF Includes(source, "Booker") THEN 9
    ELSE IF Includes(source, "National Book Award") THEN 8
    ELSE IF Includes(source, "NYT Bestseller") THEN 7
    ELSE IF Includes(source, "Oprah") THEN 5
    ELSE 0

\* lines 468-473: the points of the source label
SourcePoints(source) ==
    IF Includes(source, "Pulitzer") THEN 10
    ELSE IF Includes(source, "Booker") THEN 9
    ELSE IF Includes(source, "National Book Award") THEN 8
    ELSE IF Includes(source, "NYT Bestseller") THEN 7
    ELSE IF Includes(source, "Critics") THEN 6
    ELSE IF Includes(source, "Oprah") THEN 5
    ELSE 0

\* line 465
BookContent(book) ==
    ToLowerCase(Str(Get(book, "title")) \o " " \o Str(Get(book, "description"))
                  \o " " \o Str(Get(book, "source")))

\* a matcher that knows the genre only with its underscore removed
GenreMatchesUnspaced(content, genre) ==
    Includes(content, Replace(genre, "_", ""))

\* lines 485-486: the genre is found in the text of the book
GenreMatches(content, genre) ==
    \/ Includes(content, Replace(genre, "_", " "))
    \/ Includes(content, Replace(genre, "_", ""))

\* lines 483-492: the points of the genre matches
GenrePoints(content, genres) ==
    LET F[i \in 0..Len(genres)] ==
            IF i = 0 THEN 0
            ELSE F[i - 1] + (IF GenreMatches(content, genres[i])
                             THEN Max(1, 5 - (i - 1)) * 2 ELSE 0)
    IN  F[Len(genres)]

\* lines 495-502: the points of the theme matches
ThemePoints(content, themes) ==
    LET F[i \in 0..Len(themes)] ==
            IF i = 0 THEN 0
            ELSE F[i - 1] + (IF Includes(content, themes[i])
                             THEN Max(1, 3 - ((i - 1) \div 2)) ELSE 0)
    IN  F[Len(themes)]

\* lines 505-510
RatingPoints(rating) == IF rating >= 43 THEN 3 ELSE IF rating >= 40 THEN 2 ELSE 0

\* lines 513-516 (a NaN year compares false)
RecencyPoints(publishedDate) ==
    LET date == NewDate(OrElse(publishedDate, "2024"))
        pubYear == GetFullYear(date)
    IN  IF ~date.valid THEN 0
        ELSE IF pubYear >= 2024 THEN 3
        ELSE IF pubYear >= 2023 THEN 2
        ELSE IF pubYear >= 2022 THEN 1
        ELSE 0

\* the justification fragments, in the order they are pushed
Reasons(book, p) ==
    LET content == BookContent(book)
        src == SourcePoints(book.source)
        r1 == IF src >= 8
              THEN <<"has received major literary recognition (" \o book.source \o ")">>
              ELSE IF src >= 5
              THEN <<"is critically acclaimed (" \o book.source \o ")">>
              ELSE <<>>
        G[i \in 0..Len(p.genres)] ==
            IF i = 0 THEN <<>>
            ELSE IF GenreMatches(content, p.genres[i]) /\ (i - 1) < 2
                 THEN Append(G[i - 1], "aligns with your interest in "
                                         \o Replace(p.genres[i], "_", " "))
                 ELSE G[i - 1]
        T[i \in 0..Len(p.themes)] ==
            IF i = 0 THEN <<>>
            ELSE IF Includes(content, p.themes[i]) /\ (i - 1) < 3
                 THEN Append(T[i - 1], "explores themes you've highlighted")
                 ELSE T[i - 1]
        r4 == IF book.averageRating >= 43
              THEN <<"has exceptional reader ratings">> ELSE <<>>
    IN  r1 \o G[Len(p.genres)] \o T[Len(p.themes)] \o r4

\* [...new Set(reasons)]: the first occurrence of every reason, in order
Unique(seq) ==
    LET F[i \in 0..Len(seq)] ==
            IF i = 0 THEN <<>>
            ELSE IF SeqContains(F[i - 1], seq[i]) THEN F[i - 1]
                 ELSE Append(F[i - 1], seq[i])
    IN  F[Len(seq)]

RECURSIVE Join(_, _)
Join(seq, sep) ==
    IF Len(seq) = 0 THEN ""
    ELSE IF Len(seq) = 1 THEN seq[1]
    ELSE seq[1] \o sep \o Join(Tail(seq), sep)

\* lines 529-536
generateReasonText(reasons) ==
    IF Len(reasons) = 0
    THEN "This book offers compelling insights and has received critical recognition."
    ELSE "This book " \o Join(Slice(Unique(reasons), 2), " and ") \o "."

Months == <<"January", "February", "March", "April", "May", "June",
            "July", "August", "September", "October", "November", "December">>

\* lines 538-547: new Date never throws, so the catch is never taken
formatDate(dateString) ==
    LET date == NewDate(dateString)
    IN  IF date.valid THEN Months[GetMonth(date) + 1] \o " " \o NumToStr(GetFullYear(date))
        ELSE "undefined NaN"

\* lines 462-516: the score of one book
ScoreOf(book, p) ==
    LET content == BookContent(book)
    IN  SourcePoints(book.source) + GenrePoints(content, p.genres)
          + ThemePoints(content, p.themes) + RatingPoints(book.averageRating)
          + RecencyPoints(Get(book, "publishedDate"))

\* lines 518-525
ScoreBook(book, p) ==
    Merge(book, [score |-> ScoreOf(book, p),
                 reason |-> generateReasonText(Reasons(book, p)),
                 publicationDate |-> formatDate(Get(book, "publishedDate")),
                 rating |-> book.averageRating,
                 image |-> OrElse(Get(book, "thumbnail"), "")])

scoreBooks(books, p) == [i \in 1..Len(books) |-> ScoreBook(books[i], p)]

\* Array.prototype.sort: a stable sort; Before(a, b) is "the comparator
\* puts a strictly before b"
SortStable(seq, Before(_, _)) ==
    LET Insert(sorted, x) ==
            LET k == Cardinality({j \in 1..Len(sorted) :
                        \E h \in j..Len(sorted) : ~Before(x, sorted[h])})
            IN  SubSeq(sorted, 1, k) \o <<x>> \o SubSeq(sorted, k + 1, Len(sorted))
        F[i \in 0..Len(seq)] ==
            IF i = 0 THEN <<>> ELSE Insert(F[i - 1], seq[i])
    IN  F[Len(seq)]

\* the comparator with its operands swapped
ScoreAscending(a, b) == a.score < b.score

\* line 160: (a, b) => b.score - a.score
ScoreDescending(a, b) == a.score > b.score

\* lines 158-160: the cutoff and the order of findPremiumRecommendations
AboveCutoff(book) == book.score > 3

\* an assembler that substitutes a fallback entry for an empty list
AssembleOrFallback(scored) ==
    IF SeqFilter(scored, AboveCutoff) = <<>>
    THEN <<[title |-> "The Seven Husbands of Evelyn Hugo",
            author |-> "Taylor Jenkins Reid"]>>
    ELSE SortStable(SeqFilter(scored, AboveCutoff), ScoreDescending)

Assemble(scored) == SortStable(SeqFilter(scored, AboveCutoff), ScoreDescending)

fallbacksTable == <<
    [title |-> "The Culture Map",
     author |-> "Erin Meyer",
     description |-> "Offers a systematic framework for understanding cultural differences in business contexts.",
     publicationDate |-> "2024",
     source |-> "Business Critics Choice",
     rating |-> 43,
     reason |-> "This book aligns with your business interests and offers practical cross-cultural insights."],
    [title |-> "Thinking, Fast and Slow",
     author |-> "Daniel Kahneman",
     description |-> "A groundbreaking exploration of the two systems that drive the way we think.",
     publicationDate |-> "2024",
     source |-> "Psychology Today Choice",
     rating |-> 44,
     reason |-> "This book explores psychological themes you've highlighted and has exceptional critical reception."],
    [title |-> "The Seven Husbands of Evelyn Hugo",
     author |-> "Taylor Jenkins Reid",
     description |-> "A reclusive Hollywood icon finally tells her story to a young journalist.",
     publicationDate |-> "2024",
     source |-> "Readers' Choice Award",
     rating |-> 45,
     reason |-> "This book has received widespread critical acclaim and reader recognition."] >>

\* lines 587-588
getHighQualityFallbacks(p) ==
    LET primaryGenre == IF Len(p.genres) = 0 THEN "literary_fiction" ELSE p.genres[1]
    IN  IF primaryGenre = "business" THEN <<fallbacksTable[1]>>
        ELSE IF primaryGenre = "psychology" THEN <<fallbacksTable[2]>>
        ELSE <<fallbacksTable[3]>>

(***************************************************************************)
(* The inputs: the requests a client can send and the responses the        *)
(* upstream providers can give.                                            *)
(***************************************************************************)
LeanStartup ==
    [id |-> "1", title |-> "The Lean Startup", author |-> "Eric Ries",
     notes |-> "startup strategy management"]
GoodStrategy ==
    [id |-> "2", title |-> "Good Strategy Bad Strategy", author |-> "Richard Rumelt",
     notes |-> "No notes available"]
Beloved ==
    [id |-> "3", title |-> "Beloved", author |-> "Toni Morrison", notes |-> "A novel"]
Thinking ==
    [id |-> "4", title |-> "Thinking, Fast and Slow", author |-> "Daniel Kahneman",
     notes |-> "Cognitive biases shape every decision. The business of psychology is to explain why overconfidence persists in experts"]
Untitled ==
    [id |-> "5", title |-> "Xyz", author |-> "James Clear"]
GoodToGreat ==
    [id |-> "6", title |-> "Good to Great", author |-> "Jim Collins",
     notes |-> "Business leaders who study enduring companies share disciplined habits"]

ReferenceBooks == {LeanStartup, GoodStrategy, Beloved, Thinking, Untitled}

\* the requests to find-similar: wrong method, no referenceBook, a reference book
FindSimilarRequests ==
    {[method |-> "GET", body |-> [referenceBook |-> LeanStartup]],
     [method |-> "POST", body |-> [other |-> "x"]]}
    \cup {[method |-> "POST", body |-> [referenceBook |-> b]] : b \in ReferenceBooks}

\* entries of a bestseller list
NytAtomicHabits ==
    [title |-> "ATOMIC HABITS", author |-> "James Clear",
     description |-> "Tiny changes in habits, remarkable results in business and life.",
     published_date |-> "2024-03-10", book_image |-> "https://img/atomic.jpg",
     amazon_product_url |-> "https://amazon/atomic"]
NytOrbital ==
    [title |-> " orbital ", author |-> "SAMANTHA HARVEY",
     description |-> "Six astronauts circle the earth."]
NytNoTitle ==
    [author |-> "Anonymous", description |-> "An entry without a title."]
NytNoAuthor ==
    [title |-> "The Anthology", description |-> "An entry without an author."]

\* parsed bodies of the bestseller provider
NytPayloads ==
    {[status |-> "OK"],
     [results |-> [books |-> <<NytAtomicHabits, NytOrbital>>]],
     [results |-> [books |-> <<NytNoTitle>>]],
     [results |-> [books |-> <<NytNoAuthor, Null, NytAtomicHabits>>]]}

\* volumes of the search provider
VolAtomicHabits ==
    [title |-> "Atomic Habits", authors |-> <<"James Clear", "Someone Else">>,
     description |-> "An easy and proven way to build good habits and break bad ones. The psychology of small changes explains how tiny routines compound into remarkable results over the years.",
     publishedDate |-> "2023-10-16", averageRating |-> 45, ratingsCount |-> 1200,
     pageCount |-> 320, categories |-> <<"Self-Help">>,
     imageLinks |-> [thumbnail |-> "https://img/vol-atomic.jpg"]]
VolDeepWork ==
    [title |-> "Deep Work", authors |-> <<"Cal Newport">>,
     description |-> "Rules for focused success in a distracted world. A celebrated professor argues that the ability to concentrate without distraction is the superpower of the modern economy.",
     publishedDate |-> "2023-08-01", averageRating |-> 45, ratingsCount |-> 150,
     pageCount |-> 304, categories |-> <<"Business & Economics">>]
VolNoTitle ==
    [authors |-> <<"Nobody Known">>,
     description |-> "A volume that the provider lists without any title at all, although it has a long enough description, many ratings and a recent date of publication, so that it passes every quality filter.",
     publishedDate |-> "2024", averageRating |-> 41, ratingsCount |-> 60,
     pageCount |-> 200]
VolNoAuthors ==
    [title |-> "Business History Annual", authors |-> <<>>,
     description |-> "The yearly review of business history, with essays on strategy and management that the provider lists with an empty list of authors. It is long, well rated and recent.",
     publishedDate |-> "2024-11", averageRating |-> 40, ratingsCount |-> 75,
     pageCount |-> 410, categories |-> <<"History">>]
VolOld ==
    [title |-> "Old Fiction", authors |-> <<"An Author">>,
     description |-> "Short.", publishedDate |-> "2019-05-01", averageRating |-> 30,
     ratingsCount |-> 2, pageCount |-> 50]
VolUndated ==
    [title |-> "Fiction Undated", authors |-> <<"Nobody Known">>,
     description |-> "A novel of fiction whose date does not parse.",
     publishedDate |-> "n.d.", averageRating |-> 45, ratingsCount |-> 500,
     pageCount |-> 250, categories |-> <<"Fiction">>]

\* a volume without description, categories or ratings, by an author of the
\* reading history, published sixteen months before now
VolPlain ==
    [title |-> "Plain Pages", authors |-> <<"James Clear">>,
     publishedDate |-> "2023-09-01", pageCount |-> 120]

Item(v) == [volumeInfo |-> v]
NoVolumeInfo == [kind |-> "books#volume"]

\* parsed bodies of the search provider
GooglePayloads ==
    {[kind |-> "books#volumes", totalItems |-> 0],
     [items |-> <<Item(VolDeepWork), Item(VolAtomicHabits)>>],
     [items |-> <<Item(VolOld)>>],
     [items |-> <<Item(VolNoTitle)>>],
     [items |-> <<Item(VolOld), Item(VolNoAuthors), Item(VolUndated)>>],
     [items |-> <<Item(VolAtomicHabits), NoVolumeInfo, Item(VolDeepWork)>>]}

\* what a fetch can do: reject (network error), answer with a non-2xx
\* status, answer 2xx with a body that is not JSON, answer 2xx with JSON
Responses(payloads) ==
    {[kind |-> "reject"], [kind |-> "status"], [kind |-> "badjson"]}
    \cup {[kind |-> "json", data |-> d] : d \in payloads}

\* the query fails: no answer, a non-2xx answer, a body that does not parse
IsFailure(r) == r.kind \in {"reject", "status", "badjson"}
\* the fetch or response.json() throws
Throws(r) == r.kind \in {"reject", "badjson"}
\* the parsed body carries entries
IsHit(r) ==
    /\ r.kind = "json"
    /\ \/ Has(r.data, "items")
       \/ (Has(r.data, "results") /\ Has(r.data.results, "books"))

None == [none |-> TRUE]

\* no library fetch is in progress: the client is at its start (index.js
\* lines 8-12)
LibraryIdle ==
    /\ readwiseToken = FALSE /\ booksData = None
    /\ libraryBooks = <<>> /\ booksWithHighlights = <<>> /\ bi = 0
    /\ step = "start" /\ readwiseBooks = <<>> /\ error = Null
    /\ loading = FALSE /\ selectedBook = Null /\ recommendations = <<>>
    /\ inflight = {} /\ started = 0

(***************************************************************************)
(* The find-similar handler (find-similar.js lines 3-38) and               *)
(* findPremiumRecommendations (lines 130-166), one action per step between *)
(* two awaits.                                                             *)
(***************************************************************************)
Idle ==
    /\ profile = None /\ qi = 0
    /\ nytBooks = <<>> /\ awardBooks = <<>> /\ criticsBooks = <<>> /\ googleBooks = <<>>
    /\ allBooks = <<>> /\ uniqueBooks = <<>> /\ scoredBooks = <<>> /\ recs = <<>>
    /\ usedFallback = FALSE /\ res = <<>> /\ log = <<>>
    /\ hits = [nyt |-> 0, google |-> 0] /\ failures = 0
    /\ LibraryIdle

InitFindSimilar ==
    /\ mode = "handler" /\ handlerName = "find-similar"
    /\ req \in FindSimilarRequests
    /\ nytKey \in BOOLEAN
    /\ pc = "start"
    /\ Idle

Send(status, body) == res' = Append(res, [status |-> status, body |-> body])

\* lines 4-6
FS_MethodNotAllowed ==
    /\ handlerName = "find-similar" /\ pc = "start"
    /\ req.method # "POST"
    /\ Send(405, [error |-> "Method not allowed"])
    /\ pc' = "done"
    /\ UNCHANGED <<libVars, mode, handlerName, req, nytKey, profile, qi, nytBooks, awardBooks,
                   criticsBooks, googleBooks, allBooks, uniqueBooks, scoredBooks,
                   recs, usedFallback, log, hits, failures>>

\* lines 9-13
FS_MissingReferenceBook ==
    /\ handlerName = "find-similar" /\ pc = "start"
    /\ req.method = "POST"
    /\ ~Has(req.body, "referenceBook")
    /\ Send(400, [error |-> "Reference book is required"])
    /\ pc' = "failed"
    /\ UNCHANGED <<libVars, mode, handlerName, req, nytKey, profile, qi, nytBooks, awardBooks,
                   criticsBooks, googleBooks, allBooks, uniqueBooks, scoredBooks,
                   recs, usedFallback, log, hits, failures>>

\* lines 15-19: the profile of the reference book
FS_Analyze ==
    /\ handlerName = "find-similar" /\ pc = "start"
    /\ req.method = "POST"
    /\ Has(req.body, "referenceBook")
    /\ profile' = analyzeReferenceBook(req.body.referenceBook)
    /\ pc' = "nyt" /\ qi' = 1
    /\ UNCHANGED <<libVars, mode, handlerName, req, nytKey, nytBooks, awardBooks,
                   criticsBooks, googleBooks, allBooks, uniqueBooks, scoredBooks,
                   recs, usedFallback, res, log, hits, failures>>

\* lines 189-223 without an API key: nothing is fetched, the delay is awaited
FS_NytSkip ==
    /\ handlerName = "find-similar" /\ pc = "nyt"
    /\ qi <= Len(ListsToCheck(profile))
    /\ ~nytKey
    /\ log' = Append(log, <<"delay", "nyt">>)
    /\ qi' = qi + 1
    /\ UNCHANGED <<libVars, mode, handlerName, req, nytKey, pc, profile, nytBooks, awardBooks,
                   criticsBooks, googleBooks, allBooks, uniqueBooks, scoredBooks,
                   recs, usedFallback, res, hits, failures>>

\* lines 189-223: one list is fetched; a rejected fetch, a body that does not
\* parse or a null entry throws into the catch of the iteration, which skips
\* the delay.  failures counts the queries that failed: no answer, a
\* non-2xx answer, a body that does not parse, an entry that makes the loop throw
FS_NytFetch ==
    /\ handlerName = "find-similar" /\ pc = "nyt"
    /\ qi <= Len(ListsToCheck(profile))
    /\ nytKey
    /\ \E r \in Responses(NytPayloads) :
         LET out == IF r.kind = "json" THEN NytProcess(r.data)
                    ELSE [books |-> <<>>, threw |-> Throws(r)]
             failed == IsFailure(r) \/ out.threw
         IN  /\ failed => failures < MaxFailures
             /\ IsHit(r) => hits.nyt < MaxNytHits
             /\ failures' = IF failed THEN failures + 1 ELSE failures
             /\ hits' = IF IsHit(r) THEN [hits EXCEPT !.nyt = @ + 1] ELSE hits
             /\ nytBooks' = nytBooks \o out.books
             /\ log' = log \o <<<<"fetch", "nyt", ListsToCheck(profile)[qi]>>>>
                           \o (IF out.threw THEN <<>> ELSE <<<<"delay", "nyt">>>>)
    /\ qi' = qi + 1
    /\ UNCHANGED <<libVars, mode, handlerName, req, nytKey, pc, profile, awardBooks,
                   criticsBooks, googleBooks, allBooks, uniqueBooks, scoredBooks,
                   recs, usedFallback, res>>

\* lines 136-137 and 225: the bestseller adapter returns
FS_NytReturn ==
    /\ handlerName = "find-similar" /\ pc = "nyt"
    /\ qi > Len(ListsToCheck(profile))
    /\ allBooks' = allBooks \o nytBooks
    /\ pc' = "award"
    /\ UNCHANGED <<libVars, mode, handlerName, req, nytKey, profile, qi, nytBooks, awardBooks,
                   criticsBooks, googleBooks, uniqueBooks, scoredBooks,
                   recs, usedFallback, res, log, hits, failures>>

\* lines 141-142
FS_Award ==
    /\ handlerName = "find-similar" /\ pc = "award"
    /\ awardBooks' = getCuratedAwardBooks(profile)
    /\ allBooks' = allBooks \o awardBooks'
    /\ pc' = "critics"
    /\ UNCHANGED <<libVars, mode, handlerName, req, nytKey, profile, qi, nytBooks,
                   criticsBooks, googleBooks, uniqueBooks, scoredBooks,
                   recs, usedFallback, res, log, hits, failures>>

\* lines 146-147
FS_Critics ==
    /\ handlerName = "find-similar" /\ pc = "critics"
    /\ criticsBooks' = getCriticsPicks(profile)
    /\ allBooks' = allBooks \o criticsBooks'
    /\ pc' = "google" /\ qi' = 1
    /\ UNCHANGED <<libVars, mode, handlerName, req, nytKey, profile, nytBooks, awardBooks,
                   googleBooks, uniqueBooks, scoredBooks,
                   recs, usedFallback, res, log, hits, failures>>

\* lines 402-443: one search term is fetched
FS_GoogleFetch ==
    /\ handlerName = "find-similar" /\ pc = "google"
    /\ qi <= Len(SearchTerms(profile))
    /\ \E r \in Responses(GooglePayloads) :
         LET out == IF r.kind = "json" THEN CuratedProcess(r.data)
                    ELSE [books |-> <<>>, threw |-> Throws(r)]
             failed == IsFailure(r) \/ out.threw
         IN  /\ failed => failures < MaxFailures
             /\ IsHit(r) => hits.google < MaxGoogleHits
             /\ failures' = IF failed THEN failures + 1 ELSE failures
             /\ hits' = IF IsHit(r) THEN [hits EXCEPT !.google = @ + 1] ELSE hits
             /\ googleBooks' = googleBooks \o out.books
             /\ log' = log \o <<<<"fetch", "google", SearchTerms(profile)[qi]>>>>
                           \o (IF out.threw THEN <<>> ELSE <<<<"delay", "google">>>>)
    /\ qi' = qi + 1
    /\ UNCHANGED <<libVars, mode, handlerName, req, nytKey, pc, profile, nytBooks, awardBooks,
                   criticsBooks, allBooks, uniqueBooks, scoredBooks,
                   recs, usedFallback, res>>

\* a pipeline that deduplicates and scores without waiting for the search
\* adapter
FS_ScoreEarly ==
    /\ handlerName = "find-similar" /\ pc = "google"
    /\ allBooks' = allBooks \o googleBooks
    /\ IF DedupeThrows(allBooks')
       THEN /\ recs' = getHighQualityFallbacks(profile)
            /\ usedFallback' = TRUE
            /\ UNCHANGED <<uniqueBooks, scoredBooks>>
       ELSE /\ uniqueBooks' = RemoveDuplicates(allBooks')
            /\ scoredBooks' = scoreBooks(uniqueBooks', profile)
            /\ recs' = Assemble(scoredBooks')
            /\ UNCHANGED usedFallback
    /\ pc' = "respond"
    /\ UNCHANGED <<libVars, mode, handlerName, req, nytKey, profile, qi, nytBooks, awardBooks,
                   criticsBooks, googleBooks, res, log, hits, failures>>

\* lines 151-165: the search adapter returns; dedupe, score, cut off and
\* sort, or the fallback table when removeDuplicates throws
FS_Score ==
    /\ handlerName = "find-similar" /\ pc = "google"
    /\ qi > Len(SearchTerms(profile))
    /\ allBooks' = allBooks \o googleBooks
    /\ IF DedupeThrows(allBooks')
       THEN /\ recs' = getHighQualityFallbacks(profile)
            /\ usedFallback' = TRUE
            /\ UNCHANGED <<uniqueBooks, scoredBooks>>
       ELSE /\ uniqueBooks' = RemoveDuplicates(allBooks')
            /\ scoredBooks' = scoreBooks(uniqueBooks', profile)
            /\ recs' = Assemble(scoredBooks')
            /\ UNCHANGED usedFallback
    /\ pc' = "respond"
    /\ UNCHANGED <<libVars, mode, handlerName, req, nytKey, profile, qi, nytBooks, awardBooks,
                   criticsBooks, googleBooks, res, log, hits, failures>>

\* lines 24-29
FS_Respond ==
    /\ handlerName = "find-similar" /\ pc = "respond"
    /\ Send(200, [recommendations |-> Slice(recs, 5),
                  searchedFor |-> Get(req.body.referenceBook, "title")])
    /\ pc' = "done"
    /\ UNCHANGED <<libVars, mode, handlerName, req, nytKey, profile, qi, nytBooks, awardBooks,
                   criticsBooks, googleBooks, allBooks, uniqueBooks, scoredBooks,
                   recs, usedFallback, log, hits, failures>>

FindSimilarNext ==
    \/ FS_MethodNotAllowed \/ FS_MissingReferenceBook \/ FS_Analyze
    \/ FS_NytSkip \/ FS_NytFetch \/ FS_NytReturn \/ FS_Award \/ FS_Critics
    \/ FS_GoogleFetch \/ FS_Score \/ FS_Respond


(***************************************************************************)
(* api/recommendations.js (src/unnamed/part_002): the reading-history flow.*)
(***************************************************************************)
\* new Date() of the handler
Now == [valid |-> TRUE, y |-> 2025, m |-> 1, d |-> 15]

\* lines 135-136: 18 months before now
CutoffDate ==
    LET months == Now.y * 12 + (Now.m - 1) - 18
    IN  [valid |-> TRUE, y |-> months \div 12, m |-> (months % 12) + 1, d |-> Now.d]

patterns == <<
    [name |-> "business",
     alts |-> <<"business", "entrepreneur", "startup", "leadership", "management", "strategy", "finance", "economics", "marketing", "sales">>],
    [name |-> "psychology",
     alts |-> <<"psychology", "psycholog", "behavior", "mental", "cognitive", "mind", "brain", "habit", "decision", "bias">>],
    [name |-> "self-help",
     alts |-> <<"self.help", "improvement", "productivity", "success", "motivation", "goal", "achievement", "personal.development">>],
    [name |-> "science",
     alts |-> <<"science", "research", "study", "data", "experiment", "theory", "discovery", "innovation", "technology">>],
    [name |-> "history",
     alts |-> <<"history", "historical", "past", "ancient", "civilization", "war", "empire", "culture", "society">>],
    [name |-> "philosophy",
     alts |-> <<"philosophy", "meaning", "existence", "wisdom", "ethics", "moral", "truth", "reality", "consciousness">>],
    [name |-> "biography",
     alts |-> <<"biography", "memoir", "life.story", "autobiography", "personal.account", "journey">>],
    [name |-> "health",
     alts |-> <<"health", "fitness", "nutrition", "exercise", "wellness", "medical", "diet", "physical">>],
    [name |-> "technology",
     alts |-> <<"technology", "digital", "internet", "software", "computer", "ai", "artificial.intelligence", "innovation">>],
    [name |-> "fiction",
     alts |-> <<"novel", "story", "character", "plot", "narrative", "fiction", "literary">>],
    [name |-> "spirituality",
     alts |-> <<"spiritual", "meditation", "mindfulness", "zen", "buddhist", "religious", "faith", "soul">>],
    [name |-> "creativity",
     alts |-> <<"creative", "creativity", "art", "design", "innovation", "imagination", "inspiration">>] >>

commonWordsHistory == {
    "that", "this", "with", "have", "will", "been", "from", "they", "know",
    "want", "good", "much", "some", "time", "very", "when", "come", "here",
    "just", "like", "long", "make", "many", "over", "such", "take", "than",
    "them", "well", "were", "what", "also", "back", "after", "use", "two",
    "how", "our", "work", "first", "way", "even", "new", "would", "any",
    "these", "give", "day", "most", "us" }

isCommonWordHistory(word) == word \in commonWordsHistory

\* Map.set(key, (Map.get(key) || 0) + n) on a Map kept in insertion order
MapAdd(map, key, n) ==
    IF \E i \in 1..Len(map) : map[i][1] = key
    THEN [i \in 1..Len(map) |-> IF map[i][1] = key THEN <<key, map[i][2] + n>> ELSE map[i]]
    ELSE Append(map, <<key, n>>)

\* lines 76-82: the genre counts of one book added to the map
AddGenres(map, content) ==
    LET F[i \in 0..Len(patterns)] ==
            IF i = 0 THEN map
            ELSE LET n == MatchCount(patterns[i].alts, content)
                 IN  IF n > 0 THEN MapAdd(F[i - 1], patterns[i].name, n) ELSE F[i - 1]
    IN  F[Len(patterns)]

\* lines 85-95: the keywords of one book added to the map
AddKeywords(map, notes) ==
    IF notes # Undefined /\ Len(notes) > 50
    THEN LET IsKeyword(word) == Len(word) > 4 /\ ~isCommonWordHistory(word)
             words == Slice(SeqFilter(SplitWhitespace(ReplaceNonWord(ToLowerCase(notes))),
                                      IsKeyword), 20)
             F[i \in 0..Len(words)] ==
                 IF i = 0 THEN map ELSE MapAdd(F[i - 1], words[i], 1)
         IN  F[Len(words)]
    ELSE map

\* entries sorted by descending count (stable), the first n keys
CountDescending(a, b) == a[2] > b[2]
TopKeys(map, n) ==
    LET sorted == Slice(SortStable(map, CountDescending), n)
    IN  [i \in 1..Len(sorted) |-> sorted[i][1]]

\* lines 40-115
analyzeReadingPatterns(books) ==
    LET content(book) == ToLowerCase(Str(Get(book, "title")) \o " " \o Str(Get(book, "notes")))
        G[i \in 0..Len(books)] ==
            IF i = 0 THEN <<>> ELSE AddGenres(G[i - 1], content(books[i]))
        K[i \in 0..Len(books)] ==
            IF i = 0 THEN <<>> ELSE AddKeywords(K[i - 1], Get(books[i], "notes"))
        genres == G[Len(books)]
        keywords == K[Len(books)]
    IN  [genres |-> genres,
         themes |-> {genres[i][1] : i \in 1..Len(genres)},
         authors |-> {Trim(ToLowerCase(books[i].author)) :
                        i \in {j \in 1..Len(books) :
                                 OrElse(Get(books[j], "author"), "") # ""}},
         keywords |-> keywords,
         topGenres |-> TopKeys(genres, 5),
         topKeywords |-> TopKeys(keywords, 10),
         totalBooks |-> Len(books)]

\* lines 140-171: the queries of searchForRecentBooks, in the order they are
\* sent; a delay follows the third query of every genre
NumToYear == NumToStr(Now.y)
RECURSIVE GenreQueries(_)
GenreQueries(genres) ==
    IF genres = <<>> THEN <<>>
    ELSE LET g == Head(genres)
         IN  <<[q |-> g \o " " \o NumToYear, delay |-> FALSE],
               [q |-> g \o " books " \o NumToYear, delay |-> FALSE],
               [q |-> "best " \o g \o " " \o NumToYear, delay |-> TRUE]>>
               \o GenreQueries(Tail(genres))

\* a search that queries every top keyword
RecentQueriesAllKeywords(p) ==
    LET kws == p.topKeywords
    IN  GenreQueries(Slice(p.topGenres, 3))
          \o [i \in 1..Len(kws) |-> [q |-> kws[i] \o " " \o NumToYear, delay |-> FALSE]]

\* lines 140-171: the queries of searchForRecentBooks, in order
RecentQueries(p) ==
    LET kws == Slice(p.topKeywords, 2)
    IN  GenreQueries(Slice(p.topGenres, 3))
          \o [i \in 1..Len(kws) |-> [q |-> kws[i] \o " " \o NumToYear, delay |-> FALSE]]

\* lines 207-211: the volume is skipped
RecentSkips(volumeInfo) ==
    \/ OrElse(Get(volumeInfo, "publishedDate"), "") = ""
    \/ LET pubDate == NewDate(volumeInfo.publishedDate)
       IN  pubDate.valid /\ TimeValue(pubDate) < TimeValue(CutoffDate)

\* volumeInfo.authors ? volumeInfo.authors[0] : 'Unknown Author'
RecentAuthor(volumeInfo) ==
    IF Has(volumeInfo, "authors")
    THEN (IF Len(volumeInfo.authors) > 0 THEN volumeInfo.authors[1] ELSE Undefined)
    ELSE "Unknown Author"

NumOr0(obj, f) == IF Has(obj, f) THEN obj[f] ELSE 0

\* lines 214-229
RecentCandidate(volumeInfo) ==
    LET pubDate == NewDate(volumeInfo.publishedDate)
    IN  [title |-> OrElse(Get(volumeInfo, "title"), "Unknown Title"),
         author |-> RecentAuthor(volumeInfo),
         authors |-> IF Has(volumeInfo, "authors") THEN volumeInfo.authors ELSE <<>>,
         description |-> OrElse(Get(volumeInfo, "description"), "No description available"),
         publishedDate |-> volumeInfo.publishedDate,
         publicationYear |-> GetFullYear(pubDate),
         publicationMonth |-> IF pubDate.valid THEN GetMonth(pubDate) + 1 ELSE NaN,
         pageCount |-> NumOr0(volumeInfo, "pageCount"),
         categories |-> IF Has(volumeInfo, "categories") THEN volumeInfo.categories ELSE <<>>,
         averageRating |-> NumOr0(volumeInfo, "averageRating"),
         ratingsCount |-> NumOr0(volumeInfo, "ratingsCount"),
         thumbnail |-> IF Has(volumeInfo, "imageLinks")
                       THEN OrElse(Get(volumeInfo.imageLinks, "thumbnail"), "") ELSE "",
         previewLink |-> OrElse(Get(volumeInfo, "previewLink"), ""),
         infoLink |-> OrElse(Get(volumeInfo, "infoLink"), "")]

\* a filter that wants every quality signal
RecentAcceptsAll(book) ==
    book.ratingsCount >= 5 /\ book.averageRating >= 35 /\ book.pageCount >= 100

\* line 232
RecentAccepts(book) ==
    book.ratingsCount >= 5 \/ book.averageRating >= 35 \/ book.pageCount >= 100

\* a volume without volumeInfo throws into the catch of searchGoogleBooks
RecentThrows(r) ==
    r.kind = "json" /\ Has(r.data, "items") /\ FirstThrowing(r.data.items) # 0

\* lines 186-243: searchGoogleBooks never throws; a volume without
\* volumeInfo ends the loop, the books pushed before it are returned
searchGoogleBooks(r) ==
    IF r.kind = "json" /\ Has(r.data, "items")
    THEN LET n == FirstThrowing(r.data.items)
             upto == IF n = 0 THEN Len(r.data.items) ELSE n - 1
             F[i \in 0..upto] ==
                 IF i = 0 THEN <<>>
                 ELSE LET v == r.data.items[i].volumeInfo
                      IN  IF ~RecentSkips(v) /\ RecentAccepts(RecentCandidate(v))
                          THEN Append(F[i - 1], RecentCandidate(v)) ELSE F[i - 1]
         IN  F[upto]
    ELSE <<>>

(***************************************************************************)
(* api/recommendations.js: the Scorer and the Assembler of the history flow*)
(***************************************************************************)
\* line 264; a book without categories (a fallback book) makes join throw
PersonalizedThrows(books) ==
    \E i \in 1..Len(books) :
        ~Has(books[i], "categories") \/ Get(books[i], "author") = Undefined

RecentContent(book) ==
    ToLowerCase(Str(book.title) \o " " \o Str(book.description) \o " "
                  \o Join(book.categories, " "))

\* lines 266-272
RecentGenrePoints(content, topGenres) ==
    LET F[i \in 0..Len(topGenres)] ==
            IF i = 0 THEN 0
            ELSE F[i - 1] + (IF Includes(content, topGenres[i])
                             THEN (5 - (i - 1)) * 3 ELSE 0)
    IN  F[Len(topGenres)]

\* lines 275-283
RecentKeywordPoints(content, topKeywords) ==
    LET F[i \in 0..Len(topKeywords)] ==
            IF i = 0 THEN 0
            ELSE F[i - 1] + (IF Includes(content, topKeywords[i])
                             THEN Max(1, 3 - ((i - 1) \div 3)) ELSE 0)
    IN  F[Len(topKeywords)]

\* lines 332-336; NaN for a date that does not parse
MonthsAgoValid(dateString) == NewDate(dateString).valid
getMonthsAgo(dateString) ==
    LET pubDate == NewDate(dateString)
    IN  (Now.y - pubDate.y) * 12 + ((Now.m - 1) - (pubDate.m - 1))

\* lines 286-289 (every comparison with NaN is false)
RecentRecencyPoints(dateString) ==
    IF ~MonthsAgoValid(dateString) THEN 0
    ELSE IF getMonthsAgo(dateString) <= 3 THEN 5
    ELSE IF getMonthsAgo(dateString) <= 6 THEN 3
    ELSE IF getMonthsAgo(dateString) <= 12 THEN 1
    ELSE 0

\* lines 292-294
PopularityPoints(book) ==
    (IF book.averageRating >= 40 THEN 2 ELSE 0)
      + (IF book.ratingsCount >= 100 THEN 1 ELSE 0)
      + (IF book.ratingsCount >= 1000 THEN 1 ELSE 0)

\* lines 297-299
AuthorPenalty(book, p) == IF ToLowerCase(book.author) \in p.authors THEN 1 ELSE 0

RecentScoreOf(book, p) ==
    LET content == RecentContent(book)
    IN  RecentGenrePoints(content, p.topGenres)
          + RecentKeywordPoints(content, p.topKeywords)
          + RecentRecencyPoints(book.publishedDate)
          + PopularityPoints(book)
          - AuthorPenalty(book, p)

\* the match reasons, in the order they are pushed
MatchReasons(book, p) ==
    LET content == RecentContent(book)
        G[i \in 0..Len(p.topGenres)] ==
            IF i = 0 THEN <<>>
            ELSE IF Includes(content, p.topGenres[i])
                 THEN Append(G[i - 1], "matches your interest in " \o p.topGenres[i])
                 ELSE G[i - 1]
        K[i \in 0..Len(p.topKeywords)] ==
            IF i = 0 THEN <<>>
            ELSE IF Includes(content, p.topKeywords[i]) /\ (i - 1) < 5
                 THEN Append(K[i - 1], "relates to your highlighted themes about "
                                         \o p.topKeywords[i])
                 ELSE K[i - 1]
    IN  G[Len(p.topGenres)] \o K[Len(p.topKeywords)]

\* lines 259-306
RecentScoreBook(book, p) ==
    Merge(book, [score |-> RecentScoreOf(book, p),
                 matchReasons |-> Slice(MatchReasons(book, p), 2)])

\* lines 311-315: by score, then by date; a difference with an Invalid Date
\* is NaN, which sort takes as "equal"
ScoreThenRecency(a, b) ==
    \/ a.score > b.score
    \/ /\ a.score = b.score
       /\ NewDate(a.publishedDate).valid /\ NewDate(b.publishedDate).valid
       /\ TimeValue(NewDate(a.publishedDate)) > TimeValue(NewDate(b.publishedDate))

\* lines 309-316
Relevant(book) == book.score > 2
TopBooks(scored) == Slice(SortStable(SeqFilter(scored, Relevant), ScoreThenRecency), 5)

\* lines 338-343
formatPublicationDate(dateString) ==
    LET date == NewDate(dateString)
    IN  IF date.valid THEN Months[GetMonth(date) + 1] \o " " \o NumToStr(GetFullYear(date))
        ELSE "undefined NaN"

genreMap == <<
    [name |-> "Business",
     alts |-> <<"business", "entrepreneur", "management">>],
    [name |-> "Psychology",
     alts |-> <<"psychology", "behavior", "mind">>],
    [name |-> "Self-Help",
     alts |-> <<"self.help", "improvement", "productivity">>],
    [name |-> "Science",
     alts |-> <<"science", "research", "technology">>],
    [name |-> "History",
     alts |-> <<"history", "historical">>],
    [name |-> "Philosophy",
     alts |-> <<"philosophy", "ethics", "wisdom">>],
    [name |-> "Biography",
     alts |-> <<"biography", "memoir">>],
    [name |-> "Health",
     alts |-> <<"health", "fitness", "wellness">>],
    [name |-> "Fiction",
     alts |-> <<"fiction", "novel", "story">>] >>

\* lines 345-368
detectPrimaryGenre(book) ==
    LET content == ToLowerCase(Str(book.title) \o " " \o Str(book.description))
        hit(i) == \/ RegexTest(genreMap[i].alts, content)
                  \/ \E c \in 1..Len(book.categories) :
                        RegexTest(genreMap[i].alts, ToLowerCase(book.categories[c]))
    IN  IF \E i \in 1..Len(genreMap) : hit(i)
        THEN genreMap[CHOOSE i \in 1..Len(genreMap) :
                        hit(i) /\ \A j \in 1..(i - 1) : ~hit(j)].name
        ELSE IF Len(book.categories) > 0 /\ book.categories[1] # ""
        THEN book.categories[1] ELSE "General"

\* lines 370-383
generateReasonTextHistory(matchReasons, publishedDate) ==
    LET reasons == matchReasons
                     \o (IF MonthsAgoValid(publishedDate) /\ getMonthsAgo(publishedDate) <= 6
                         THEN <<"is a very recent publication">> ELSE <<>>)
    IN  IF Len(reasons) = 0
        THEN "This book offers fresh insights that complement your reading interests."
        ELSE "This book " \o Join(Slice(reasons, 2), " and ") \o "."

\* lines 385-388
truncateDescription(description) ==
    IF description = Undefined \/ description = "" THEN "No description available."
    ELSE IF Len(description) > 200 THEN SubSeq(description, 1, 200) \o "..."
    ELSE description

\* lines 319-329: the record sent to the client
FormatBook(book) ==
    [title |-> book.title,
     author |-> book.author,
     publicationYear |-> book.publicationYear,
     publicationDate |-> formatPublicationDate(book.publishedDate),
     genre |-> detectPrimaryGenre(book),
     reason |-> generateReasonTextHistory(book.matchReasons, book.publishedDate),
     description |-> truncateDescription(book.description),
     rating |-> IF book.averageRating = 0 THEN 40 ELSE book.averageRating,
     reviewSource |-> "Google Books"]

\* lines 257-330
generatePersonalizedRecommendations(recentBooks, p) ==
    LET scored == [i \in 1..Len(recentBooks) |-> RecentScoreBook(recentBooks[i], p)]
        top == TopBooks(scored)
    IN  [i \in 1..Len(top) |-> FormatBook(top[i])]

\* lines 390-405
getFallbackRecentBooks ==
    <<[title |-> "The AI Revolution",
       author |-> "Dr. Sarah Chen",
       publicationYear |-> 2024,
       publicationDate |-> "March 2024",
       genre |-> "Technology",
       reason |-> "This is a fallback recommendation as web search encountered issues.",
       description |-> "A comprehensive look at how artificial intelligence is reshaping our world.",
       rating |-> 42,
       reviewSource |-> "Goodreads"]>>

(***************************************************************************)
(* The recommendations handler (part_002 lines 3-38) and                   *)
(* searchForRecentBooks (lines 129-184).                                   *)
(***************************************************************************)
Array(items) == [type |-> "array", items |-> items]

\* the requests to recommendations: wrong method, no readingHistory, a
\* readingHistory that is not an array, reading histories
RecommendationsRequests ==
    {[method |-> "GET", body |-> [readingHistory |-> Array(<<Beloved>>)]],
     [method |-> "POST", body |-> [other |-> "x"]],
     [method |-> "POST", body |-> [readingHistory |-> [type |-> "string", value |-> "Beloved"]]]}
    \cup {[method |-> "POST", body |-> [readingHistory |-> Array(h)]] :
            h \in {<<>>, <<Untitled>>, <<Beloved, Untitled>>, <<LeanStartup, Thinking>>,
                   <<GoodToGreat>>}}

InitRecommendations ==
    /\ mode = "handler" /\ handlerName = "recommendations"
    /\ req \in RecommendationsRequests
    /\ nytKey = FALSE
    /\ pc = "start"
    /\ Idle

\* lines 4-6
R_MethodNotAllowed ==
    /\ handlerName = "recommendations" /\ pc = "start"
    /\ req.method # "POST"
    /\ Send(405, [error |-> "Method not allowed"])
    /\ pc' = "done"
    /\ UNCHANGED <<libVars, mode, handlerName, req, nytKey, profile, qi, nytBooks, awardBooks,
                   criticsBooks, googleBooks, allBooks, uniqueBooks, scoredBooks,
                   recs, usedFallback, log, hits, failures>>

\* lines 9-13
R_InvalidHistory ==
    /\ handlerName = "recommendations" /\ pc = "start"
    /\ req.method = "POST"
    /\ IF Has(req.body, "readingHistory")
       THEN req.body.readingHistory.type # "array" ELSE TRUE
    /\ Send(400, [error |-> "Invalid reading history data"])
    /\ pc' = "failed"
    /\ UNCHANGED <<libVars, mode, handlerName, req, nytKey, profile, qi, nytBooks, awardBooks,
                   criticsBooks, googleBooks, allBooks, uniqueBooks, scoredBooks,
                   recs, usedFallback, log, hits, failures>>

\* lines 15-19
R_Analyze ==
    /\ handlerName = "recommendations" /\ pc = "start"
    /\ req.method = "POST"
    /\ Has(req.body, "readingHistory") /\ req.body.readingHistory.type = "array"
    /\ profile' = analyzeReadingPatterns(req.body.readingHistory.items)
    /\ pc' = "search" /\ qi' = 1
    /\ UNCHANGED <<libVars, mode, handlerName, req, nytKey, nytBooks, awardBooks,
                   criticsBooks, googleBooks, allBooks, uniqueBooks, scoredBooks,
                   recs, usedFallback, res, log, hits, failures>>

\* a search that sends a failed query again
R_QueryRetry ==
    /\ handlerName = "recommendations" /\ pc = "search"
    /\ qi <= Len(RecentQueries(profile))
    /\ \E r \in Responses(GooglePayloads) :
         /\ (IsFailure(r) \/ RecentThrows(r)) => failures < MaxFailures
         /\ IsHit(r) => hits.google < MaxGoogleHits
         /\ failures' = IF IsFailure(r) \/ RecentThrows(r) THEN failures + 1 ELSE failures
         /\ hits' = IF IsHit(r) THEN [hits EXCEPT !.google = @ + 1] ELSE hits
         /\ googleBooks' = googleBooks \o searchGoogleBooks(r)
         /\ allBooks' = allBooks \o searchGoogleBooks(r)
         /\ qi' = IF IsFailure(r) \/ RecentThrows(r) THEN qi ELSE qi + 1
    /\ log' = log \o <<<<"fetch", "google", RecentQueries(profile)[qi].q>>>>
                  \o (IF RecentQueries(profile)[qi].delay
                      THEN <<<<"delay", "google">>>> ELSE <<>>)
    /\ UNCHANGED <<libVars, mode, handlerName, req, nytKey, pc, profile, nytBooks, awardBooks,
                   criticsBooks, uniqueBooks, scoredBooks, recs, usedFallback, res>>

\* lines 140-171: one query of searchForRecentBooks; searchGoogleBooks
\* absorbs every failure
R_Query ==
    /\ handlerName = "recommendations" /\ pc = "search"
    /\ qi <= Len(RecentQueries(profile))
    /\ \E r \in Responses(GooglePayloads) :
         /\ (IsFailure(r) \/ RecentThrows(r)) => failures < MaxFailures
         /\ IsHit(r) => hits.google < MaxGoogleHits
         /\ failures' = IF IsFailure(r) \/ RecentThrows(r) THEN failures + 1 ELSE failures
         /\ hits' = IF IsHit(r) THEN [hits EXCEPT !.google = @ + 1] ELSE hits
         /\ googleBooks' = googleBooks \o searchGoogleBooks(r)
         /\ allBooks' = allBooks \o searchGoogleBooks(r)
    /\ log' = log \o <<<<"fetch", "google", RecentQueries(profile)[qi].q>>>>
                  \o (IF RecentQueries(profile)[qi].delay
                      THEN <<<<"delay", "google">>>> ELSE <<>>)
    /\ qi' = qi + 1
    /\ UNCHANGED <<libVars, mode, handlerName, req, nytKey, pc, profile, nytBooks, awardBooks,
                   criticsBooks, uniqueBooks, scoredBooks, recs, usedFallback, res>>

\* lines 173-183: the unique books, or the fallback books when
\* removeDuplicateBooks throws
R_Return ==
    /\ handlerName = "recommendations" /\ pc = "search"
    /\ qi > Len(RecentQueries(profile))
    /\ IF DedupeThrows(allBooks)
       THEN uniqueBooks' = getFallbackRecentBooks /\ usedFallback' = TRUE
       ELSE uniqueBooks' = RemoveDuplicates(allBooks) /\ UNCHANGED usedFallback
    /\ pc' = "scoring"
    /\ UNCHANGED <<libVars, mode, handlerName, req, nytKey, profile, qi, nytBooks, awardBooks,
                   criticsBooks, googleBooks, allBooks, scoredBooks, recs, res, log,
                   hits, failures>>

\* lines 26-27 and 257-316
R_Score ==
    /\ handlerName = "recommendations" /\ pc = "scoring"
    /\ IF PersonalizedThrows(uniqueBooks)
       THEN pc' = "catch" /\ UNCHANGED <<scoredBooks, recs>>
       ELSE /\ scoredBooks' = [i \in 1..Len(uniqueBooks) |->
                                 RecentScoreBook(uniqueBooks[i], profile)]
            /\ recs' = TopBooks(scoredBooks')
            /\ pc' = "respond"
    /\ UNCHANGED <<libVars, mode, handlerName, req, nytKey, profile, qi, nytBooks, awardBooks,
                   criticsBooks, googleBooks, allBooks, uniqueBooks, usedFallback, res,
                   log, hits, failures>>

\* line 29 (and 319-329)
R_Respond ==
    /\ handlerName = "recommendations" /\ pc = "respond"
    /\ Send(200, [recommendations |-> generatePersonalizedRecommendations(uniqueBooks, profile)])
    /\ pc' = "done"
    /\ UNCHANGED <<libVars, mode, handlerName, req, nytKey, profile, qi, nytBooks, awardBooks,
                   criticsBooks, googleBooks, allBooks, uniqueBooks, scoredBooks,
                   recs, usedFallback, log, hits, failures>>

\* a catch block that logs the error and returns without a response
R_CatchSilent ==
    /\ handlerName = "recommendations" /\ pc = "catch"
    /\ log' = Append(log, <<"error", "recommendations">>)
    /\ pc' = "failed"
    /\ UNCHANGED <<libVars, mode, handlerName, req, nytKey, profile, qi, nytBooks, awardBooks,
                   criticsBooks, googleBooks, allBooks, uniqueBooks, scoredBooks,
                   recs, usedFallback, res, hits, failures>>

\* lines 31-37
R_Catch ==
    /\ handlerName = "recommendations" /\ pc = "catch"
    /\ Send(500, [error |-> "Failed to generate recommendations",
                  message |-> "Cannot read properties of undefined"])
    /\ pc' = "failed"
    /\ UNCHANGED <<libVars, mode, handlerName, req, nytKey, profile, qi, nytBooks, awardBooks,
                   criticsBooks, googleBooks, allBooks, uniqueBooks, scoredBooks,
                   recs, usedFallback, log, hits, failures>>

RecommendationsNext ==
    \/ R_MethodNotAllowed \/ R_InvalidHistory \/ R_Analyze \/ R_Query
    \/ R_Return \/ R_Score \/ R_Respond \/ R_Catch

(***************************************************************************)
(* The handlers: one request, to one of the two handlers.                  *)
(***************************************************************************)
Init == InitFindSimilar \/ InitRecommendations
Next == FindSimilarNext \/ RecommendationsNext
Spec == Init /\ [][Next]_vars

(***************************************************************************)
(* The deduplicator alone: a candidate list is drawn, removeDuplicates is  *)
(* applied to it, and then to its own result.                              *)
(***************************************************************************)
DedupePool ==
    {[title |-> t, author |-> a, description |-> d] :
        t \in {"Atomic Habits", " atomic habits", "Deep Work"},
        a \in {"James Clear", "JAMES CLEAR "},
        d \in {"from the first adapter", "from the second adapter"}}

RECURSIVE ListsUpTo(_, _)
ListsUpTo(pool, n) ==
    IF n = 0 THEN {<<>>}
    ELSE LET shorter == ListsUpTo(pool, n - 1)
         IN  shorter \cup {Append(l, b) : l \in {s \in shorter : Len(s) = n - 1}, b \in pool}

InitDedupe ==
    /\ mode = "dedupe" /\ handlerName = "none"
    /\ req = None /\ nytKey = FALSE
    /\ pc = "input"
    /\ profile = None /\ qi = 0
    /\ nytBooks = <<>> /\ awardBooks = <<>> /\ criticsBooks = <<>> /\ googleBooks = <<>>
    /\ allBooks \in ListsUpTo(DedupePool, MaxListLen)
    /\ uniqueBooks = <<>> /\ scoredBooks = <<>> /\ recs = <<>>
    /\ usedFallback = FALSE /\ res = <<>> /\ log = <<>>
    /\ hits = [nyt |-> 0, google |-> 0] /\ failures = 0
    /\ LibraryIdle

\* uniqueBooks = removeDuplicates(allBooks)
D_Dedupe ==
    /\ mode = "dedupe" /\ pc = "input"
    /\ uniqueBooks' = RemoveDuplicates(allBooks)
    /\ pc' = "deduped"
    /\ UNCHANGED <<libVars, mode, handlerName, req, nytKey, profile, qi, nytBooks, awardBooks,
                   criticsBooks, googleBooks, allBooks, scoredBooks, recs,
                   usedFallback, res, log, hits, failures>>

\* recs = removeDuplicates(uniqueBooks)
D_Again ==
    /\ mode = "dedupe" /\ pc = "deduped"
    /\ recs' = RemoveDuplicates(uniqueBooks)
    /\ pc' = "again"
    /\ UNCHANGED <<libVars, mode, handlerName, req, nytKey, profile, qi, nytBooks, awardBooks,
                   criticsBooks, googleBooks, allBooks, uniqueBooks, scoredBooks,
                   usedFallback, res, log, hits, failures>>

DedupeNext == D_Dedupe \/ D_Again
SpecDedupe == InitDedupe /\ [][DedupeNext]_vars

\* the handlers and the deduplicator alone
InitHandlersAndDedupe == Init \/ InitDedupe
NextHandlersAndDedupe == Next \/ DedupeNext
SpecHandlersAndDedupe == InitHandlersAndDedupe /\ [][NextHandlersAndDedupe]_vars

(***************************************************************************)
(* The scorers alone: a profile, a candidate and one genre of the profile  *)
(* are drawn; the candidate is scored as it is and with the genre term     *)
(* added to its description.                                               *)
(***************************************************************************)
SeqToSet(seq) == {seq[i] : i \in 1..Len(seq)}

SingleCandidates ==
    SeqToSet(awardBooksTable) \cup SeqToSet(criticsBooksTable)
      \cup {NytCandidate(NytAtomicHabits), NytCandidate(NytOrbital),
            CuratedCandidate(VolAtomicHabits), CuratedCandidate(VolDeepWork)}

HistoryCandidates ==
    {RecentCandidate(v) :
        v \in {v \in {VolAtomicHabits, VolDeepWork, VolNoTitle, VolUndated, VolPlain} :
                  ~RecentSkips(v) /\ RecentAccepts(RecentCandidate(v))}}

Histories == {<<Untitled>>, <<Beloved, Untitled>>, <<LeanStartup, Thinking>>,
              <<Thinking, GoodStrategy, Beloved>>}

\* the genre term the scorer looks for: find-similar.js line 485, part_002 line 268
GenreTerm(flow, p, i) ==
    IF flow = "find-similar" THEN Replace(p.genres[i], "_", " ") ELSE p.topGenres[i]

GenreCount(flow, p) == IF flow = "find-similar" THEN Len(p.genres) ELSE Len(p.topGenres)

WithTerm(book, term) == [book EXCEPT !.description = @ \o " " \o term]

InitScore ==
    /\ mode = "score"
    /\ handlerName \in {"find-similar", "recommendations"}
    /\ req = None /\ nytKey = FALSE
    /\ pc = "input"
    /\ IF handlerName = "find-similar"
       THEN /\ profile \in {analyzeReferenceBook(b) : b \in ReferenceBooks}
            /\ allBooks \in {<<c>> : c \in SingleCandidates}
       ELSE /\ profile \in {analyzeReadingPatterns(h) : h \in Histories}
            /\ allBooks \in {<<c>> : c \in HistoryCandidates}
    /\ qi \in 1..GenreCount(handlerName, profile)
    /\ nytBooks = <<>> /\ awardBooks = <<>> /\ criticsBooks = <<>> /\ googleBooks = <<>>
    /\ uniqueBooks = <<>> /\ scoredBooks = <<>> /\ recs = <<>>
    /\ usedFallback = FALSE /\ res = <<>> /\ log = <<>>
    /\ hits = [nyt |-> 0, google |-> 0] /\ failures = 0
    /\ LibraryIdle

\* scoreBooks on the candidate and on the candidate with the term added
S_ScoreSingle ==
    /\ mode = "score" /\ pc = "input" /\ handlerName = "find-similar"
    /\ uniqueBooks' = <<allBooks[1], WithTerm(allBooks[1], GenreTerm(handlerName, profile, qi))>>
    /\ scoredBooks' = scoreBooks(uniqueBooks', profile)
    /\ pc' = "scored"
    /\ UNCHANGED <<libVars, mode, handlerName, req, nytKey, profile, qi, nytBooks, awardBooks,
                   criticsBooks, googleBooks, allBooks, recs, usedFallback, res, log,
                   hits, failures>>

\* the scoring of generatePersonalizedRecommendations on the same two
S_ScoreHistory ==
    /\ mode = "score" /\ pc = "input" /\ handlerName = "recommendations"
    /\ uniqueBooks' = <<allBooks[1], WithTerm(allBooks[1], GenreTerm(handlerName, profile, qi))>>
    /\ scoredBooks' = [i \in 1..2 |-> RecentScoreBook(uniqueBooks'[i], profile)]
    /\ pc' = "scored"
    /\ UNCHANGED <<libVars, mode, handlerName, req, nytKey, profile, qi, nytBooks, awardBooks,
                   criticsBooks, googleBooks, allBooks, recs, usedFallback, res, log,
                   hits, failures>>

ScoreNext == S_ScoreSingle \/ S_ScoreHistory
SpecScore == InitScore /\ [][ScoreNext]_vars

(***************************************************************************)
(* Properties.                                                             *)
(***************************************************************************)
\* the request passes the validation of its handler (lines 4-13 of both)
ValidRequest ==
    /\ mode = "handler" /\ req.method = "POST"
    /\ IF handlerName = "find-similar" THEN Has(req.body, "referenceBook")
       ELSE IF Has(req.body, "readingHistory")
            THEN req.body.readingHistory.type = "array" ELSE FALSE

\* the handler has sent its response
Finished == mode = "handler" /\ pc \in {"done", "failed"}
Response == res[Len(res)]

\* every adapter returned no candidate and no query failed
ZeroCandidates == allBooks = <<>> /\ failures = 0

\* C1 as stated: when every adapter returns zero candidates without an
\* exception, the response is a 200 whose recommendations are the static
\* fallback list, never empty.
C1_Original ==
    (Finished /\ ValidRequest /\ ZeroCandidates)
        => (Response.status = 200 /\ Response.body.recommendations # <<>>)

\* C1 amended: when every adapter returns zero candidates without an
\* exception, the response is one 200 whose recommendations are empty; the
\* static fallback is substituted only in the single-reference flow, exactly
\* when deduplication throws on a candidate without title or author, and is
\* then the one entry for the profile's primary genre (business,
\* psychology) or the literary-fiction default.
C1_Amended ==
    /\ (Finished /\ ValidRequest /\ ZeroCandidates)
          => /\ Len(res) = 1
             /\ Response.status = 200
             /\ Response.body.recommendations = <<>>
    /\ (Finished /\ ValidRequest /\ handlerName = "find-similar")
          => /\ usedFallback <=> DedupeThrows(allBooks)
             /\ usedFallback =>
                  /\ Response.status = 200
                  /\ Len(Response.body.recommendations) = 1
                  /\ Response.body.recommendations[1].title =
                       (IF profile.genres[1] = "business" THEN "The Culture Map"
                        ELSE IF profile.genres[1] = "psychology"
                             THEN "Thinking, Fast and Slow"
                        ELSE "The Seven Husbands of Evelyn Hugo")
    /\ (Finished /\ ValidRequest /\ handlerName = "recommendations"
          /\ Response.status = 200) => ~usedFallback

\* every query of the single-reference flow was sent and answered with
\* nothing, and the response went out empty
C1_Witness ==
    /\ Finished /\ ValidRequest /\ ZeroCandidates
    /\ handlerName = "find-similar" /\ nytKey
    /\ Len(log) >= 2 * (Len(ListsToCheck(profile)) + Len(SearchTerms(profile)))
    /\ Response.status = 200 /\ Response.body.recommendations = <<>>

\* C2: a failing search query is logged and yields an empty list while the
\* remaining queries still run, and a valid request always gets a 200 with a
\* recommendations array, never a 500.
C2_NeverFails ==
    (Finished /\ ValidRequest)
        => /\ Len(res) = 1
           /\ Response.status = 200
           /\ Has(Response.body, "recommendations")
           /\ Len(SeqFilter(log, LAMBDA e : e[1] = "fetch")) =
                 (IF handlerName = "find-similar"
                  THEN (IF nytKey THEN Len(ListsToCheck(profile)) ELSE 0)
                         + Len(SearchTerms(profile))
                  ELSE Len(RecentQueries(profile)))

\* C3: a request without its required field gets a client error whose body
\* has both an error and a message field, and neither the profiler nor an
\* adapter is called.
C3_StructuredError ==
    (Finished /\ ~ValidRequest /\ req.method = "POST")
        => /\ Len(res) = 1
           /\ Response.status \in 400..499
           /\ profile = None /\ log = <<>> /\ allBooks = <<>>
           /\ Has(Response.body, "error") /\ Has(Response.body, "message")


\* C4: removing duplicates from a list that has already been deduplicated
\* gives that list back, and the output is never longer than the input.
C4_Idempotent ==
    /\ (mode = "dedupe" /\ pc \in {"deduped", "again"})
          => Len(uniqueBooks) <= Len(allBooks)
    /\ (mode = "dedupe" /\ pc = "again")
          => /\ recs = uniqueBooks
             /\ Len(recs) <= Len(uniqueBooks)

\* a list with duplicates was deduplicated to two or more books, and again
C4_Witness ==
    /\ mode = "dedupe" /\ pc = "again"
    /\ Len(uniqueBooks) < Len(allBooks)
    /\ Len(uniqueBooks) >= 2
    /\ recs = uniqueBooks

\* the identity key as the specification words it: lower-cased, trimmed
\* title and author
SpecKey(book) ==
    Trim(ToLowerCase(book.title)) \o "-" \o Trim(ToLowerCase(book.author))

\* output holds, in input order, exactly the first entry of every key
KeepsFirstSeen(input, output) ==
    LET first == {i \in 1..Len(input) :
                    \A j \in 1..(i - 1) : SpecKey(input[j]) # SpecKey(input[i])}
    IN  /\ Len(output) = Cardinality(first)
        /\ \A i \in first : output[Cardinality({j \in first : j <= i})] = input[i]
        /\ \A i \in 1..Len(input) :
             Cardinality({j \in 1..Len(output) :
                            SpecKey(output[j]) = SpecKey(input[i])}) = 1

\* the deduplicator has run on allBooks and did not throw
Deduplicated ==
    \/ mode = "dedupe" /\ pc \in {"deduped", "again"}
    \/ /\ mode = "handler" /\ handlerName = "find-similar" /\ ValidRequest
       /\ pc \in {"respond", "done"} /\ ~usedFallback
    \/ /\ mode = "handler" /\ handlerName = "recommendations" /\ ValidRequest
       /\ pc \in {"scoring", "respond", "done"} /\ ~usedFallback

\* C5: after deduplication there is exactly one entry per identity key, it
\* is the first one seen, and the order of the survivors is the input order;
\* the input of the single-reference flow is the adapters' lists in the
\* order bestseller, award, critics, general search, so the instance of the
\* earlier adapter survives.
C5_FirstSeen ==
    /\ Deduplicated => KeepsFirstSeen(allBooks, uniqueBooks)
    /\ (mode = "handler" /\ handlerName = "find-similar" /\ ValidRequest
          /\ pc \in {"respond", "done"})
          => allBooks = nytBooks \o awardBooks \o criticsBooks \o googleBooks

\* a book of the bestseller adapter and a book of a later adapter share a
\* key, and the bestseller adapter's instance is the one that survived
C5_Witness ==
    /\ mode = "handler" /\ handlerName = "find-similar" /\ pc = "done"
    /\ ~usedFallback
    /\ \E i \in 1..Len(nytBooks) :
         /\ \E later \in {awardBooks, googleBooks} : \E j \in 1..Len(later) :
              /\ SpecKey(later[j]) = SpecKey(nytBooks[i])
              /\ later[j] # nytBooks[i]
         /\ \E k \in 1..Len(uniqueBooks) : uniqueBooks[k] = nytBooks[i]

\* C6: after profiling a non-empty input the genres of the profile are never
\* empty, in the single-reference flow and in the reading-history flow.
C6_GenresNeverEmpty ==
    (mode = "handler" /\ profile # None)
        => IF handlerName = "find-similar" THEN Len(profile.genres) > 0
           ELSE Len(req.body.readingHistory.items) > 0
                   => (Len(profile.genres) > 0 /\ Len(profile.topGenres) > 0)

\* the scores of the entries of a 200 response, in response order
ReturnedScores ==
    IF handlerName = "find-similar"
    THEN [i \in 1..Len(Response.body.recommendations) |->
            Response.body.recommendations[i].score]
    ELSE [i \in 1..Len(recs) |-> recs[i].score]

\* the response is a 200 built from scored candidates
ScoredResponse ==
    /\ Finished /\ ValidRequest /\ Response.status = 200 /\ ~usedFallback

\* C7: the returned list has at most five entries and is in non-increasing
\* score order.
C7_Ordered ==
    /\ (Finished /\ Response.status = 200 /\ Has(Response.body, "recommendations"))
          => Len(Response.body.recommendations) <= 5
    /\ ScoredResponse
          => /\ Len(ReturnedScores) = Len(Response.body.recommendations)
             /\ \A i \in 1..Len(ReturnedScores) : \A j \in i..Len(ReturnedScores) :
                  ReturnedScores[i] >= ReturnedScores[j]

\* more than five candidates passed the cutoff, five were returned, and
\* their scores are not all the same
C7_Witness ==
    /\ ScoredResponse /\ handlerName = "find-similar"
    /\ Len(recs) > 5
    /\ Len(Response.body.recommendations) = 5
    /\ ReturnedScores[1] > ReturnedScores[5]


\* the scored candidates behind the entries of a 200 response, in response
\* order
ReturnedBooks ==
    IF handlerName = "find-similar" THEN Response.body.recommendations ELSE recs

\* C8: among returned recommendations of equal score the one with the more
\* recent publication date comes first, in both flows.
C8_TieBreak ==
    ScoredResponse
        => \A i \in 1..Len(ReturnedBooks) : \A j \in (i + 1)..Len(ReturnedBooks) :
             LET a == ReturnedBooks[i]
                 b == ReturnedBooks[j]
                 da == NewDate(Get(a, "publishedDate"))
                 db == NewDate(Get(b, "publishedDate"))
             IN  (a.score = b.score /\ da.valid /\ db.valid)
                    => TimeValue(da) >= TimeValue(db)

\* the scorers ran on a candidate and on the candidate with the term added
Scored == mode = "score" /\ pc = "scored"
ScoredTerm == GenreTerm(handlerName, profile, qi)

\* title, description and categories of the candidate do not contain the term
TermAbsent ==
    LET book == uniqueBooks[1]
        InText(text) == Includes(ToLowerCase(Str(text)), ScoredTerm)
    IN  /\ ~InText(Get(book, "title"))
        /\ ~InText(Get(book, "description"))
        /\ Has(book, "categories")
              => \A i \in 1..Len(book.categories) : ~InText(book.categories[i])

\* the text the scorer searches (title, description and the source label in
\* the single-reference flow; title, description and categories in the
\* reading-history flow) contains the term in none of its forms
TermAbsentFromScoredText ==
    LET book == uniqueBooks[1]
    IN  IF handlerName = "find-similar"
        THEN LET text == ToLowerCase(Str(Get(book, "title")) \o " "
                                       \o Str(Get(book, "description")) \o " "
                                       \o Str(Get(book, "source")))
             IN  /\ ~Includes(text, ScoredTerm)
                 /\ ~Includes(text, Replace(ScoredTerm, " ", ""))
        ELSE ~Includes(ToLowerCase(Str(book.title) \o " " \o Str(book.description)
                                     \o " " \o Join(book.categories, " ")),
                       ScoredTerm)

C10_AdmittedWellFormed ==
    mode = "handler"
        => \A list \in {nytBooks, awardBooks, criticsBooks, googleBooks, allBooks} :
             \A i \in 1..Len(list) :
                /\ Get(list[i], "title") \notin {Undefined, ""}
                /\ Get(list[i], "author") \notin {Undefined, ""}


\* the stage of the run: 0 idle, 2 searching (the profile is computed on
\* entry), 3 deduplicated and scoring, 4 done or failed
Stage ==
    IF pc = "start" THEN 0
    ELSE IF pc \in {"nyt", "award", "critics", "google", "search"} THEN 2
    ELSE IF pc \in {"scoring", "respond", "catch"} THEN 3
    ELSE 4

\* the fetches sent so far to a provider
Fetches(provider) ==
    SeqFilter(log, LAMBDA e : e[1] = "fetch" /\ e[2] = provider)

\* every query of every adapter has been sent
AllAdaptersReturned ==
    IF handlerName = "find-similar"
    THEN /\ Len(Fetches("nyt")) = (IF nytKey THEN Len(ListsToCheck(profile)) ELSE 0)
         /\ Len(Fetches("google")) = Len(SearchTerms(profile))
         /\ awardBooks = getCuratedAwardBooks(profile)
         /\ criticsBooks = getCriticsPicks(profile)
    ELSE Len(Fetches("google")) = Len(RecentQueries(profile))

\* one step of a run keeps the order of the stages
StageStep ==
    /\ Stage' >= Stage
    /\ (Stage = 0 /\ Stage' # 0) =>
          IF ValidRequest THEN Stage' = 2 /\ profile = None /\ profile' # None
          ELSE Stage' = 4 /\ profile' = None
    /\ Stage # 0 => profile' = profile
    /\ log' # log => (Stage = 2 /\ Stage' = 2 /\ profile # None)
    /\ (Stage = 2 /\ Stage' # 2) => (Stage' = 3 /\ AllAdaptersReturned)
    /\ Stage # 2 => UNCHANGED <<nytBooks, awardBooks, criticsBooks, googleBooks, allBooks>>
    /\ Stage' = 2 => UNCHANGED <<uniqueBooks, scoredBooks, recs>>
    /\ (Stage = 3 /\ Stage' = 4) => ValidRequest
    /\ res' # res => (res = <<>> /\ Len(res') = 1 /\ Stage' = 4 /\ Stage # 4)
    /\ (Stage' = 4 /\ Stage # 4) => res' # res

\* C11: in every handling of a valid request the stages occur in the order
\* profiling, searching, scoring, done, each at most once: no query is sent
\* before the profile is computed, deduplication and scoring start only
\* after every adapter has returned, the response is sent only after
\* scoring, and the run ends in exactly one of done or failed, with one
\* response sent on entering it.
C11_StageOrder == [][StageStep]_vars

\* a valid request went through every stage: its queries were sent, its
\* candidates scored, its response sent
C11_Witness ==
    /\ Finished /\ ValidRequest /\ handlerName = "find-similar" /\ nytKey
    /\ Len(Fetches("nyt")) > 0 /\ Len(Fetches("google")) > 0
    /\ scoredBooks # <<>>
    /\ Response.status = 200 /\ Response.body.recommendations # <<>>


\* C12: every score the scorer assigns is a non-negative number, for every
\* candidate and every profile, also for a candidate by an already-read
\* author that matches no genre, keyword, rating or recency signal.
C12_NonNegative ==
    Scored => \A i \in 1..Len(scoredBooks) : scoredBooks[i].score >= 0


\* C13: when the bestseller provider's key is not configured, no request is
\* sent to that provider, the request does not fail, and the candidates of
\* the curated and general-search adapters are still deduplicated, scored
\* and returned.
C13_KeylessPipeline ==
    (Finished /\ ValidRequest /\ handlerName = "find-similar" /\ ~nytKey)
        => /\ Fetches("nyt") = <<>> /\ nytBooks = <<>>
           /\ Len(res) = 1 /\ Response.status = 200
           /\ LET candidates == awardBooks \o criticsBooks \o googleBooks
                  scored == scoreBooks(RemoveDuplicates(candidates), profile)
                  kept == {i \in 1..Len(scored) : scored[i].score > 3}
              IN  /\ Len(Response.body.recommendations) = Min(5, Cardinality(kept))
                  /\ \A i \in 1..Len(Response.body.recommendations) :
                       \E k \in kept : Response.body.recommendations[i] = scored[k]


(***************************************************************************)
(* The library fetch: the readwise handler (api/readwise.js, the handler   *)
(* of lines 87-180) and the client's fetchRandomBooks (pages/index.js      *)
(* lines 15-65).                                                           *)
(***************************************************************************)
MaxLibraryLen == 3    \* entries in the provider's library

\* a value that `&&` and `||` take as true
Truthy(v) == v # Undefined /\ v # ""

\* book.source_url?.includes(domain)
SourceUrlIncludes(book, domain) ==
    Has(book, "source_url") /\ Includes(book.source_url, domain)

\* readwise.js lines 120-131: the entry is taken as a book
ServerKeeps(book) ==
    LET author == Get(book, "author")
        title == Get(book, "title")
        hasAuthor == Truthy(author) /\ Trim(author) # "" /\ ~Includes(author, "http")
        hasTitle == Truthy(title) /\ Trim(title) # "" /\ ~Includes(title, "http")
        notWebContent == /\ ~SourceUrlIncludes(book, "twitter.com")
                         /\ ~SourceUrlIncludes(book, "x.com")
                         /\ ~SourceUrlIncludes(book, "medium.com")
                         /\ ~SourceUrlIncludes(book, "substack.com")
        authorReasonableLength == Truthy(author) /\ Len(author) < 100
    IN  hasAuthor /\ hasTitle /\ notWebContent /\ authorReasonableLength

\* readwise.js lines 119-132
ServerFilter(results) == Slice(SeqFilter(results, ServerKeeps), 50)

\* a title check that looks for "http" only
TitleNotUrlHttpOnly(item) == ~Includes(item.title, "http")

\* index.js line 33
TitleNotUrl(item) == ~Includes(item.title, "http") /\ ~Includes(item.title, "www.")

\* index.js line 33: item.title.includes on an entry without title
ClientThrows(results) ==
    \E i \in 1..Len(results) : Get(results[i], "title") = Undefined

\* index.js lines 29-43
ClientKeeps(item) ==
    LET author == Get(item, "author")
        title == Get(item, "title")
        hasAuthor == Truthy(author) /\ Trim(author) # ""
        hasTitle == Truthy(title) /\ Trim(title) # ""
        notTweet == /\ ~SourceUrlIncludes(item, "twitter.com")
                    /\ ~SourceUrlIncludes(item, "x.com")
        notArticle == /\ ~SourceUrlIncludes(item, "medium.com")
                      /\ ~SourceUrlIncludes(item, "substack.com")
                      /\ ~SourceUrlIncludes(item, "blog")
        likelyBook == \/ Get(item, "category") = "books"
                      \/ (Truthy(author) /\ Len(author) < 50)
                      \/ Truthy(Get(item, "cover_image_url"))
    IN  hasAuthor /\ hasTitle /\ TitleNotUrl(item) /\ notTweet /\ notArticle /\ likelyBook

\* index.js line 51
NotesOf(book) ==
    LET joined == IF Has(book, "highlights")
                  THEN Join([i \in 1..Len(book.highlights) |-> book.highlights[i].text], ". ")
                  ELSE ""
    IN  IF joined # "" THEN joined
        ELSE IF Truthy(Get(book, "summary")) THEN book.summary
        ELSE "No notes available"

\* index.js lines 47-53
Selectable(book) ==
    [id |-> book.id, title |-> book.title, author |-> book.author,
     notes |-> NotesOf(book), cover |-> Get(book, "cover_image_url")]

\* index.js line 46: a sort whose comparator is random gives some order
Shuffles(seq) ==
    {[i \in 1..Len(seq) |-> seq[f[i]]] : f \in Permutations(1..Len(seq))}

\* entries of the provider's library: books, and what is not a book
LibraryPool ==
    {[id |-> 1, title |-> "Atomic Habits", author |-> "James Clear",
      category |-> "books", cover_image_url |-> "https://covers.example/1.jpg"],
     [id |-> 3, title |-> "Beloved", author |-> "Toni Morrison", summary |-> "A novel"],
     [id |-> 11, title |-> "https://twitter.com/someone/status/1", author |-> "",
      source_url |-> "https://twitter.com/someone/status/1"],
     [id |-> 12, title |-> "www.example.com/essay", author |-> "Some Blogger",
      category |-> "articles"],
     [id |-> 13, title |-> "Notes to self", author |-> "   "],
     [id |-> 14, title |-> "http://example.org/post", author |-> "Jane Roe"],
     [id |-> 15, title |-> "Highlights without author"]}

\* parsed bodies of the reading-history provider
LibraryPayloads ==
    {[detail |-> "Invalid token."]}
      \cup {[results |-> l] : l \in ListsUpTo(LibraryPool, MaxLibraryLen)}

\* parsed bodies of the highlights of one entry
HighlightsPayloads ==
    {[detail |-> "Not found."],
     [results |-> <<>>],
     [results |-> <<[text |-> "Small habits compound"], [text |-> "Focus is a skill"]>>]}


\* what the library fetch leaves alone: the state of the search pipelines
searchVars == <<nytKey, profile, qi, nytBooks, awardBooks, criticsBooks, googleBooks,
                allBooks, uniqueBooks, scoredBooks, recs, usedFallback, hits>>

InitLibrary ==
    /\ mode = "library" /\ handlerName = "readwise"
    /\ req \in {[method |-> "GET"], [method |-> "POST"]}
    /\ readwiseToken \in BOOLEAN
    /\ nytKey = FALSE
    /\ pc = "start"
    /\ profile = None /\ qi = 0
    /\ nytBooks = <<>> /\ awardBooks = <<>> /\ criticsBooks = <<>> /\ googleBooks = <<>>
    /\ allBooks = <<>> /\ uniqueBooks = <<>> /\ scoredBooks = <<>> /\ recs = <<>>
    /\ usedFallback = FALSE /\ res = <<>> /\ log = <<>>
    /\ hits = [nyt |-> 0, google |-> 0] /\ failures = 0
    /\ booksData = None
    /\ libraryBooks = <<>> /\ booksWithHighlights = <<>> /\ bi = 0
    /\ step = "start" /\ readwiseBooks = <<>> /\ error = Null
    /\ loading = TRUE /\ selectedBook = Null /\ recommendations = <<>>
    /\ inflight = {} /\ started = 0

\* readwise.js lines 89-91
RW_MethodNotAllowed ==
    /\ handlerName = "readwise" /\ pc = "start"
    /\ req.method # "GET"
    /\ Send(405, [error |-> "Method not allowed"])
    /\ pc' = "done"
    /\ UNCHANGED <<mode, handlerName, req, searchVars, log, failures, readwiseToken,
                   booksData, libraryBooks, booksWithHighlights, bi, step,
                   readwiseBooks, error, loading, uiVars>>

\* readwise.js lines 95-102
RW_NoToken ==
    /\ handlerName = "readwise" /\ pc = "start"
    /\ req.method = "GET"
    /\ ~readwiseToken
    /\ Send(500, [error |-> "Readwise API token not configured",
                  message |-> "Please add READWISE_API_TOKEN to your environment variables"])
    /\ pc' = "failed"
    /\ UNCHANGED <<mode, handlerName, req, searchVars, log, failures, readwiseToken,
                   booksData, libraryBooks, booksWithHighlights, bi, step,
                   readwiseBooks, error, loading, uiVars>>

\* readwise.js lines 105-132 and the catch of lines 173-179: the library is
\* fetched and filtered, or the request fails
RW_FetchBooks ==
    /\ handlerName = "readwise" /\ pc = "start"
    /\ req.method = "GET"
    /\ readwiseToken
    /\ \E r \in Responses(LibraryPayloads) :
         IF r.kind = "json" /\ Has(r.data, "results")
         THEN /\ booksData' = r.data
              /\ libraryBooks' = ServerFilter(r.data.results)
              /\ bi' = 1
              /\ pc' = "highlights"
              /\ UNCHANGED res
         ELSE /\ Send(500, [error |-> "Failed to fetch Readwise data",
                            message |-> CASE r.kind = "reject" -> "fetch failed"
                                          [] r.kind = "status" -> "Readwise API error: 500"
                                          [] r.kind = "badjson" -> "Unexpected token"
                                          [] OTHER -> "Cannot read properties of undefined"])
              /\ pc' = "failed"
              /\ UNCHANGED <<booksData, libraryBooks, bi>>
    /\ log' = Append(log, <<"fetch", "readwise", "books">>)
    /\ UNCHANGED <<mode, handlerName, req, searchVars, failures, readwiseToken,
                   booksWithHighlights, step, readwiseBooks, error, loading, uiVars>>

\* a loop that gives up the whole request when a highlights fetch fails
RW_HighlightsAbort ==
    /\ handlerName = "readwise" /\ pc = "highlights"
    /\ bi <= Len(libraryBooks)
    /\ \E r \in Responses(HighlightsPayloads) :
         /\ IsFailure(r) => failures < MaxFailures
         /\ failures' = IF IsFailure(r) THEN failures + 1 ELSE failures
         /\ IF IsFailure(r)
            THEN /\ Send(500, [error |-> "Failed to fetch Readwise data",
                               message |-> "fetch failed"])
                 /\ pc' = "failed"
                 /\ UNCHANGED booksWithHighlights
            ELSE /\ booksWithHighlights' =
                      Append(booksWithHighlights,
                             IF Has(r.data, "results")
                             THEN Merge(libraryBooks[bi], [highlights |-> r.data.results])
                             ELSE libraryBooks[bi])
                 /\ UNCHANGED <<pc, res>>
    /\ bi' = bi + 1
    /\ log' = Append(log, <<"fetch", "readwise", "highlights">>)
    /\ UNCHANGED <<mode, handlerName, req, searchVars, readwiseToken, booksData,
                   libraryBooks, step, readwiseBooks, error, loading, uiVars>>

\* readwise.js lines 135-165: the highlights of one kept entry; a fetch that
\* fails leaves the entry with no highlights
RW_Highlights ==
    /\ handlerName = "readwise" /\ pc = "highlights"
    /\ bi <= Len(libraryBooks)
    /\ \E r \in Responses(HighlightsPayloads) :
         /\ IsFailure(r) => failures < MaxFailures
         /\ failures' = IF IsFailure(r) THEN failures + 1 ELSE failures
         /\ booksWithHighlights' =
              Append(booksWithHighlights,
                     IF IsFailure(r) THEN Merge(libraryBooks[bi], [highlights |-> <<>>])
                     ELSE IF Has(r.data, "results")
                     THEN Merge(libraryBooks[bi], [highlights |-> r.data.results])
                     ELSE libraryBooks[bi])
    /\ bi' = bi + 1
    /\ log' = Append(log, <<"fetch", "readwise", "highlights">>)
    /\ UNCHANGED <<mode, handlerName, req, searchVars, pc, res, readwiseToken, booksData,
                   libraryBooks, step, readwiseBooks, error, loading, uiVars>>

\* readwise.js lines 167-171
RW_Respond ==
    /\ handlerName = "readwise" /\ pc = "highlights"
    /\ bi > Len(libraryBooks)
    /\ Send(200, [results |-> booksWithHighlights, count |-> Len(booksWithHighlights)])
    /\ pc' = "done"
    /\ UNCHANGED <<mode, handlerName, req, searchVars, log, failures, readwiseToken,
                   booksData, libraryBooks, booksWithHighlights, bi, step,
                   readwiseBooks, error, loading, uiVars>>

\* index.js lines 20-64: the client, which set loading before the fetch,
\* takes the response, filters it, picks five in a random order, goes on to
\* the selection step and clears loading
C_FetchRandomBooks ==
    /\ handlerName = "readwise" /\ pc \in {"done", "failed"}
    /\ Len(res) = 1
    /\ IF res[1].status # 200
       THEN /\ error' = [message |-> IF Truthy(Get(res[1].body, "message"))
                                      THEN res[1].body.message
                                      ELSE "Failed to fetch Readwise data"]
            /\ UNCHANGED <<readwiseBooks, step>>
       ELSE IF ClientThrows(res[1].body.results)
       THEN /\ error' = [message |-> "Cannot read properties of undefined"]
            /\ UNCHANGED <<readwiseBooks, step>>
       ELSE /\ \E shuffled \in Shuffles(SeqFilter(res[1].body.results, ClientKeeps)) :
                 readwiseBooks' = [i \in 1..Min(5, Len(shuffled)) |-> Selectable(shuffled[i])]
            /\ step' = "selecting"
            /\ UNCHANGED error
    /\ loading' = FALSE
    /\ pc' = "client"
    /\ UNCHANGED <<mode, handlerName, req, searchVars, res, log, failures, readwiseToken,
                   booksData, libraryBooks, booksWithHighlights, bi, uiVars>>

LibraryNext ==
    \/ RW_MethodNotAllowed
    \/ RW_NoToken
    \/ RW_FetchBooks
    \/ RW_Highlights
    \/ RW_Respond
    \/ C_FetchRandomBooks

SpecLibrary == InitLibrary /\ [][LibraryNext]_vars


(***************************************************************************)
(* C14: history entries that are not books                                 *)
(***************************************************************************)
StartsWith(s, prefix) ==
    Len(s) >= Len(prefix) /\ SubSeq(s, 1, Len(prefix)) = prefix

\* the entry's author is absent, empty or blank
EmptyAuthor(entry) ==
    Get(entry, "author") = Undefined \/ Trim(entry.author) = ""

\* the entry's title is a web address
UrlTitle(entry) ==
    /\ Get(entry, "title") # Undefined
    /\ \/ StartsWith(entry.title, "http://")
       \/ StartsWith(entry.title, "https://")
       \/ StartsWith(entry.title, "www.")

Noise(entry) == EmptyAuthor(entry) \/ UrlTitle(entry)
NotNoise(entry) == ~Noise(entry)

\* the ids of the entries of a library that reach the selection step
KeptIds(results) ==
    LET kept == SeqFilter(ServerFilter(results), ClientKeeps)
    IN  {kept[i].id : i \in 1..Len(kept)}

\* the library arrived and the client has taken the handler's response
LibraryFetched ==
    handlerName = "readwise" /\ pc = "client" /\ booksData # None

\* C14: once the library has arrived, the fetch ends with status 200 and the
\* client reaches the selection step without error; no entry offered for
\* selection has an empty author or a web address as title; and the entries
\* offered are those that would be offered were the library to hold no such
\* entry at all.
C14_NoiseExcluded ==
    LibraryFetched =>
        /\ res[1].status = 200 /\ error = Null /\ step = "selecting"
        /\ \A i \in 1..Len(readwiseBooks) : NotNoise(readwiseBooks[i])
        /\ {readwiseBooks[i].id : i \in 1..Len(readwiseBooks)}
             = KeptIds(SeqFilter(booksData.results, NotNoise))
        /\ Len(readwiseBooks)
             = Min(5, Len(SeqFilter(ServerFilter(SeqFilter(booksData.results, NotNoise)),
                                    ClientKeeps)))

\* a library with an entry of empty author, an entry whose title is a web
\* address that only the client recognises, and a book that is offered
C14_Witness ==
    /\ LibraryFetched
    /\ \E i \in 1..Len(booksData.results) : EmptyAuthor(booksData.results[i])
    /\ \E i \in 1..Len(booksData.results) :
         UrlTitle(booksData.results[i]) /\ ServerKeeps(booksData.results[i])
    /\ readwiseBooks # <<>>


(***************************************************************************)
(* Scoring two candidates that differ in one field: the source label       *)
(* (find-similar.js lines 465-473) or the author (part_002 lines 296-299). *)
(***************************************************************************)
\* source labels: those of the adapters and tables of find-similar.js, and
\* one that no tier knows
SourceLabels ==
    {"Pulitzer Prize Nonfiction 2024", "Booker Prize Winner 2024",
     "National Book Award Fiction 2024", "NYT Bestseller", "Business Critics Choice",
     "Cultural Critics Choice", "Oprah's Book Club", "Curated Selection", "Unranked"}

PairAuthors == {"Eric Ries", "Daniel Kahneman", "Toni Morrison", "James Clear", "Cal Newport"}

\* the two candidates are the same but for the field
Variants(c, field, values) ==
    {<<[c EXCEPT ![field] = v], [c EXCEPT ![field] = w]>> :
        <<v, w>> \in {vw \in values \X values : vw[1] # vw[2]}}

InitPair ==
    /\ mode = "pair"
    /\ handlerName \in {"find-similar", "recommendations"}
    /\ req = None /\ nytKey = FALSE
    /\ pc = "input"
    /\ IF handlerName = "find-similar"
       THEN /\ profile \in {analyzeReferenceBook(b) : b \in ReferenceBooks}
            /\ allBooks \in UNION {Variants(c, "source", SourceLabels)
                                     \cup Variants(c, "author", PairAuthors) :
                                   c \in SingleCandidates}
       ELSE /\ profile \in {analyzeReadingPatterns(h) : h \in Histories}
            /\ allBooks \in UNION {Variants(c, "author", PairAuthors) :
                                   c \in HistoryCandidates}
    /\ qi = 0
    /\ nytBooks = <<>> /\ awardBooks = <<>> /\ criticsBooks = <<>> /\ googleBooks = <<>>
    /\ uniqueBooks = <<>> /\ scoredBooks = <<>> /\ recs = <<>>
    /\ usedFallback = FALSE /\ res = <<>> /\ log = <<>>
    /\ hits = [nyt |-> 0, google |-> 0] /\ failures = 0
    /\ LibraryIdle

\* scoreBooks on the two candidates
P_ScoreSingle ==
    /\ mode = "pair" /\ pc = "input" /\ handlerName = "find-similar"
    /\ uniqueBooks' = allBooks
    /\ scoredBooks' = scoreBooks(allBooks, profile)
    /\ pc' = "scored"
    /\ UNCHANGED <<libVars, mode, handlerName, req, nytKey, profile, qi, nytBooks, awardBooks,
                   criticsBooks, googleBooks, allBooks, recs, usedFallback, res, log,
                   hits, failures>>

\* the scoring of generatePersonalizedRecommendations on the two candidates
P_ScoreHistory ==
    /\ mode = "pair" /\ pc = "input" /\ handlerName = "recommendations"
    /\ uniqueBooks' = allBooks
    /\ scoredBooks' = [i \in 1..2 |-> RecentScoreBook(allBooks[i], profile)]
    /\ pc' = "scored"
    /\ UNCHANGED <<libVars, mode, handlerName, req, nytKey, profile, qi, nytBooks, awardBooks,
                   criticsBooks, googleBooks, allBooks, recs, usedFallback, res, log,
                   hits, failures>>

PairNext == P_ScoreSingle \/ P_ScoreHistory
SpecPair == InitPair /\ [][PairNext]_vars

(***************************************************************************)
(* C15: source prestige                                                    *)
(***************************************************************************)
\* the prestige tier of a source label: literary prize, national award,
\* bestseller list, critics' pick, none
Tier(source) ==
    IF Includes(source, "Pulitzer") \/ Includes(source, "Booker") THEN 4
    ELSE IF Includes(source, "National Book Award") THEN 3
    ELSE IF Includes(source, "NYT Bestseller") THEN 2
    ELSE IF Includes(source, "Critics") THEN 1
    ELSE 0

\* two candidates of find-similar, the same but for the source label, are
\* scored, and the first is of the higher tier
HigherTierPair ==
    /\ mode = "pair" /\ pc = "scored" /\ handlerName = "find-similar"
    /\ uniqueBooks[1].source # uniqueBooks[2].source
    /\ Tier(uniqueBooks[1].source) > Tier(uniqueBooks[2].source)

\* every profile genre and theme found in the text of b is found in the
\* text of a
MatchesCover(a, b, p) ==
    /\ \A i \in 1..Len(p.genres) :
         GenreMatches(BookContent(b), p.genres[i]) => GenreMatches(BookContent(a), p.genres[i])
    /\ \A i \in 1..Len(p.themes) :
         Includes(BookContent(b), p.themes[i]) => Includes(BookContent(a), p.themes[i])

Planned(provider) ==
    IF profile = None THEN <<>>
    ELSE IF handlerName = "find-similar"
    THEN (IF provider = "nyt" THEN (IF nytKey THEN ListsToCheck(profile) ELSE <<>>)
          ELSE SearchTerms(profile))
    ELSE IF handlerName = "recommendations" /\ provider = "google"
    THEN [i \in 1..Len(RecentQueries(profile)) |-> RecentQueries(profile)[i].q]
    ELSE <<>>

\* what was sent to a provider, in order
Sent(provider) ==
    [i \in 1..Len(Fetches(provider)) |-> Fetches(provider)[i][3]]

Providers == {"nyt", "google"}

\* C16 as stated: no list name or search term is sent to its provider twice
\* within one request.
C16_Original ==
    mode = "handler" =>
        \A provider \in Providers :
            \A i, j \in 1..Len(Sent(provider)) :
                i # j => Sent(provider)[i] # Sent(provider)[j]

\* C16, amended: every query a request plans is attempted once, in the
\* planned order, whether or not it fails: what was sent to a provider is
\* always the beginning of what the request plans for it.
C16_Amended ==
    mode = "handler" =>
        \A provider \in Providers :
            /\ Len(Sent(provider)) <= Len(Planned(provider))
            /\ Sent(provider) = SubSeq(Planned(provider), 1, Len(Sent(provider)))

\* a request of which a query failed and which went on to send the rest
C16_Witness ==
    /\ Finished /\ ValidRequest
    /\ failures > 0
    /\ handlerName = "recommendations"
    /\ Len(Planned("google")) > 0
    /\ Sent("google") = Planned("google")


\* the outbound calls to the search providers so far
OutboundCalls == Len(Fetches("nyt")) + Len(Fetches("google"))

\* C17: within one request, the number of outbound calls to the search
\* providers never exceeds 15, whatever the profile and whichever queries
\* fail.
C17_CallBudget ==
    mode = "handler" => OutboundCalls <= 15

\* a reading-history request with three top genres and two top keywords
\* has sent its eleven queries, one of which failed
C17_Witness ==
    /\ Finished /\ ValidRequest
    /\ handlerName = "recommendations"
    /\ Len(profile.topGenres) >= 3 /\ Len(profile.topKeywords) >= 2
    /\ failures > 0
    /\ OutboundCalls = 11


\* C18: between any two consecutive queries of one request to the same
\* provider a rate-limit delay takes place, also when the earlier of the two
\* failed.
C18_DelayBetweenQueries ==
    mode = "handler" =>
        \A provider \in Providers :
            \A i, j \in 1..Len(log) :
                (/\ i < j
                 /\ log[i][1] = "fetch" /\ log[i][2] = provider
                 /\ log[j][1] = "fetch" /\ log[j][2] = provider)
                    => \E k \in (i + 1)..(j - 1) :
                          log[k][1] = "delay" /\ log[k][2] = provider


(***************************************************************************)
(* C19: the already-read author                                            *)
(***************************************************************************)
\* the author is one the profile was derived from: the reference book's
\* author (find-similar.js line 41), an author of the history (part_002
\* lines 51-55)
AlreadyRead(author) ==
    IF handlerName = "find-similar"
    THEN ToLowerCase(author) = ToLowerCase(Str(Get(profile.originalBook, "author")))
    ELSE ToLowerCase(author) \in profile.authors

\* two candidates, the same but for the author, are scored; the first is by
\* an already-read author and the second is not
ReadAuthorPair ==
    /\ mode = "pair" /\ pc = "scored"
    /\ uniqueBooks[1].author # uniqueBooks[2].author
    /\ AlreadyRead(uniqueBooks[1].author)
    /\ ~AlreadyRead(uniqueBooks[2].author)

\* C19: a candidate by an already-read author scores strictly lower than the
\* otherwise identical candidate by another author, in the single-reference
\* flow and in the reading-history flow.
C19_AuthorPenalty ==
    ReadAuthorPair => scoredBooks[1].score < scoredBooks[2].score

\* the same statement of the reading-history flow alone
C19_HistoryOnly ==
    (ReadAuthorPair /\ handlerName = "recommendations")
        => scoredBooks[1].score < scoredBooks[2].score


(***************************************************************************)
(* C20: the genres named in the justification                              *)
(***************************************************************************)
\* the profile genres found in the text of the candidate, in rank order
MatchingGenres(flow, book, p) ==
    IF flow = "find-similar"
    THEN SeqFilter(p.genres, LAMBDA g : GenreMatches(BookContent(book), g))
    ELSE SeqFilter(p.topGenres, LAMBDA g : Includes(RecentContent(book), g))

\* the justification fragments of a scored candidate
FragmentsOf(flow, book, p) ==
    IF flow = "find-similar" THEN Reasons(book, p) ELSE book.matchReasons

\* some fragment names the genre
NamesGenre(fragments, flow, genre) ==
    \E i \in 1..Len(fragments) :
        Includes(fragments[i], IF flow = "find-similar" THEN Replace(genre, "_", " ")
                               ELSE genre)

\* C20: each of the two highest-ranked profile genres found in the text of
\* a candidate gets a justification fragment that names it, whatever its
\* rank in the profile: a candidate that matches only the third-ranked genre
\* still gets a fragment naming that genre.
C20_TopTwoMatchingGenresNamed ==
    (mode = "score" /\ pc = "scored") =>
        \A i \in 1..2 :
            LET book == IF handlerName = "find-similar" THEN uniqueBooks[i]
                        ELSE scoredBooks[i]
                matching == MatchingGenres(handlerName, uniqueBooks[i], profile)
            IN  \A k \in 1..Min(2, Len(matching)) :
                    NamesGenre(FragmentsOf(handlerName, book, profile),
                               handlerName, matching[k])


(***************************************************************************)
(* Rendering a publication date: formatDate (find-similar.js lines         *)
(* 538-547) and formatPublicationDate (part_002 lines 338-343) applied to  *)
(* one date string.                                                        *)
(***************************************************************************)
TwoDigits(n) == IF n < 10 THEN "0" \o NumToStr(n) ELSE NumToStr(n)

\* date strings as the providers deliver them: a year, a year and month, a
\* full date; no date at all, an empty one, and ones that do not parse
DateStrings ==
    {NumToStr(y) : y \in 2022..2025}
      \cup {NumToStr(y) \o "-" \o TwoDigits(m) : y \in 2022..2025, m \in 1..12}
      \cup {NumToStr(y) \o "-" \o TwoDigits(m) \o "-15" : y \in {2024}, m \in 1..12}
      \cup {Undefined, "", "unknown", "n.d.", "2024-13", "2024-00-10"}

InitDate ==
    /\ mode = "date"
    /\ handlerName \in {"find-similar", "recommendations"}
    /\ req \in DateStrings
    /\ nytKey = FALSE
    /\ pc = "input"
    /\ Idle

\* formatDate(dateString)
D_FormatDate ==
    /\ mode = "date" /\ pc = "input" /\ handlerName = "find-similar"
    /\ res' = <<formatDate(req)>>
    /\ pc' = "formatted"
    /\ UNCHANGED <<libVars, mode, handlerName, req, nytKey, profile, qi, nytBooks, awardBooks,
                   criticsBooks, googleBooks, allBooks, uniqueBooks, scoredBooks, recs,
                   usedFallback, log, hits, failures>>

\* formatPublicationDate(dateString)
D_FormatPublicationDate ==
    /\ mode = "date" /\ pc = "input" /\ handlerName = "recommendations"
    /\ res' = <<formatPublicationDate(req)>>
    /\ pc' = "formatted"
    /\ UNCHANGED <<libVars, mode, handlerName, req, nytKey, profile, qi, nytBooks, awardBooks,
                   criticsBooks, googleBooks, allBooks, uniqueBooks, scoredBooks, recs,
                   usedFallback, log, hits, failures>>

DateNext == D_FormatDate \/ D_FormatPublicationDate
SpecDate == InitDate /\ [][DateNext]_vars

\* a month name, a space and a year in digits
IsMonthYear(s) ==
    \E m \in 1..Len(Months) :
        /\ StartsWith(s, Months[m] \o " ")
        /\ Len(s) > Len(Months[m]) + 1
        /\ IsDigits(SubSeq(s, Len(Months[m]) + 2, Len(s)))

\* a year in digits and nothing else
IsYearOnly(s) == Len(s) = 4 /\ IsDigits(s)

\* C21: the rendered publication date is a "Month Year" string of a valid
\* month name and a numeric year, or a generic year string when the date
\* string is missing or does not parse; it never holds an undefined month
\* or a year that is not a number.
C21_RenderedDate ==
    (mode = "date" /\ pc = "formatted") =>
        /\ IsMonthYear(res[1]) \/ (~NewDate(req).valid /\ IsYearOnly(res[1]))
        /\ ~Includes(res[1], "undefined")
        /\ ~Includes(res[1], "NaN")

\* the same statement of the date strings that parse
C21_ParseableDates ==
    (mode = "date" /\ pc = "formatted" /\ NewDate(req).valid) => IsMonthYear(res[1])


(***************************************************************************)
(* The acceptance filters of the general search adapters applied to one    *)
(* upstream volume: searchCuratedGoogleBooks (find-similar.js lines        *)
(* 412-435) and searchGoogleBooks (part_002 lines 202-236).                *)
(***************************************************************************)
\* the property when the provider sends it
Opt(present, name, value) == IF present THEN name :> value ELSE <<>>

ShortDescription == "A short note about the book."
LongDescription == VolAtomicHabits.description

\* upstream volumes: every combination of rating, ratings count,
\* description, page count, date and authors, each of which may be missing
AdmitVolumes ==
    {[title |-> "Some Book"]
        @@ Opt(rating >= 0, "averageRating", rating)
        @@ Opt(count >= 0, "ratingsCount", count)
        @@ Opt(description # "", "description", description)
        @@ Opt(pages >= 0, "pageCount", pages)
        @@ Opt(date # "", "publishedDate", date)
        @@ Opt(withAuthors, "authors", <<"Ann Author">>) :
      rating \in {-1, 30, 35, 40}, count \in {-1, 4, 5, 50},
      description \in {"", ShortDescription, LongDescription},
      pages \in {-1, 80, 100},
      date \in {"", "2021-05", "2023-06", "2023-08", "2024-06"},
      withAuthors \in BOOLEAN}

InitAdmit ==
    /\ mode = "admit"
    /\ handlerName \in {"find-similar", "recommendations"}
    /\ req \in AdmitVolumes
    /\ nytKey = FALSE
    /\ pc = "input"
    /\ Idle

\* searchCuratedGoogleBooks on a payload of the one volume
A_Curated ==
    /\ mode = "admit" /\ pc = "input" /\ handlerName = "find-similar"
    /\ googleBooks' = CuratedProcess([items |-> <<Item(req)>>]).books
    /\ pc' = "filtered"
    /\ UNCHANGED <<libVars, mode, handlerName, req, nytKey, profile, qi, nytBooks, awardBooks,
                   criticsBooks, allBooks, uniqueBooks, scoredBooks, recs, usedFallback,
                   res, log, hits, failures>>

\* searchGoogleBooks on a payload of the one volume
A_Recent ==
    /\ mode = "admit" /\ pc = "input" /\ handlerName = "recommendations"
    /\ googleBooks' = searchGoogleBooks([kind |-> "json", data |-> [items |-> <<Item(req)>>]])
    /\ pc' = "filtered"
    /\ UNCHANGED <<libVars, mode, handlerName, req, nytKey, profile, qi, nytBooks, awardBooks,
                   criticsBooks, allBooks, uniqueBooks, scoredBooks, recs, usedFallback,
                   res, log, hits, failures>>

AdmitNext == A_Curated \/ A_Recent
SpecAdmit == InitAdmit /\ [][AdmitNext]_vars

(***************************************************************************)
(* C22: the acceptance filters                                             *)
(***************************************************************************)
Filtered == mode = "admit" /\ pc = "filtered"
Admitted == googleBooks # <<>>

\* a number the provider sent, 0 when it sent none
Num(v, f) == IF Has(v, f) THEN v[f] ELSE 0

NonEmptyAuthor(v) == Has(v, "authors") /\ Len(v.authors) > 0 /\ v.authors[1] # ""

\* the recency window of the flow: the year 2022 or later (find-similar.js
\* lines 419-420), not before the cutoff of 18 months (part_002 line 211)
InWindow(v) ==
    /\ Has(v, "publishedDate")
    /\ NewDate(v.publishedDate).valid
    /\ IF handlerName = "find-similar"
       THEN GetFullYear(NewDate(v.publishedDate)) >= 2022
       ELSE TimeValue(NewDate(v.publishedDate)) >= TimeValue(CutoffDate)

GoodRating(v) == Num(v, "averageRating") >= (IF handlerName = "find-similar" THEN 40 ELSE 35)
ManyRatings(v) == Num(v, "ratingsCount") >= (IF handlerName = "find-similar" THEN 50 ELSE 5)
LongEnough(v) == Has(v, "description") /\ Len(v.description) > 150

\* C22 as stated: a volume with a non-empty author inside the recency
\* window is admitted when its rating, its ratings count or the length of
\* its description reaches the threshold, and rejected when none does.
C22_Original ==
    (Filtered /\ NonEmptyAuthor(req) /\ InWindow(req)) =>
        (Admitted <=> (GoodRating(req) \/ ManyRatings(req) \/ LongEnough(req)))

\* C22, amended: the search adapter of the single-reference flow admits a
\* volume exactly when it is of 2022 or later and its rating is at least
\* 4.0 and its ratings count at least 50 and its description longer than
\* 150 characters; the search adapter of the reading-history flow admits a
\* volume exactly when it has a publication date that does not parse to a
\* date before the cutoff and its ratings count is at least 5 or its rating
\* at least 3.5 or its page count at least 100. Neither looks at the author.
C22_Amended ==
    Filtered =>
        IF handlerName = "find-similar"
        THEN Admitted <=> (/\ InWindow(req) /\ GoodRating(req)
                           /\ ManyRatings(req) /\ LongEnough(req))
        ELSE Admitted <=> (/\ Has(req, "publishedDate")
                           /\ (NewDate(req.publishedDate).valid => InWindow(req))
                           /\ (\/ ManyRatings(req) \/ GoodRating(req)
                               \/ Num(req, "pageCount") >= 100))

\* a recent volume with an author and a rating of 4.0, few ratings and no
\* description was rejected by the single-reference flow
C22_Witness ==
    /\ Filtered /\ handlerName = "find-similar"
    /\ NonEmptyAuthor(req) /\ InWindow(req)
    /\ GoodRating(req) /\ ~ManyRatings(req) /\ ~LongEnough(req)
    /\ ~Admitted


(***************************************************************************)
(* C23: notes that are absent                                              *)
(***************************************************************************)
\* the notes the client sends for a book without highlights and summary
\* (index.js line 51)
NoNotesSentinel == "No notes available"

\* the book has no notes: none at all, empty ones, the sentinel
WithoutNotes(book) ==
    Get(book, "notes") \in {Undefined, "", NoNotesSentinel}

\* the book with its title and author alone
TitleAndAuthor(book) ==
    IF WithoutNotes(book)
    THEN [f \in DOMAIN book \cup {"notes"} |-> IF f = "notes" THEN "" ELSE book[f]]
    ELSE book

\* the profile is that of the reference book with its title and author alone
SingleProfileIgnoresNotes ==
    LET book == req.body.referenceBook
        alone == analyzeReferenceBook(TitleAndAuthor(book))
    IN  /\ profile.genres = alone.genres
        /\ profile.themes = alone.themes
        /\ profile.writingStyle = alone.writingStyle

\* the profile is that of the history with the title and author alone of
\* every book that has no notes
HistoryProfileIgnoresNotes ==
    LET books == req.body.readingHistory.items
        alone == analyzeReadingPatterns([i \in 1..Len(books) |-> TitleAndAuthor(books[i])])
    IN  /\ profile.genres = alone.genres
        /\ profile.themes = alone.themes
        /\ profile.topGenres = alone.topGenres
        /\ profile.topKeywords = alone.topKeywords
        /\ profile.authors = alone.authors

\* C23: a reference book whose notes are absent, empty or the sentinel "No
\* notes available" contributes nothing from its notes: the profile is the
\* one derived from its title and author alone.
C23_AbsentNotesContributeNothing ==
    (mode = "handler" /\ ValidRequest /\ profile # None) =>
        IF handlerName = "find-similar"
        THEN SingleProfileIgnoresNotes
        ELSE HistoryProfileIgnoresNotes


(***************************************************************************)
(* C24: an empty reading history                                           *)
(***************************************************************************)
\* the request carries a reading history that is an empty list
EmptyHistoryRequest ==
    /\ mode = "handler" /\ handlerName = "recommendations"
    /\ req.method = "POST"
    /\ Has(req.body, "readingHistory")
    /\ req.body.readingHistory = Array(<<>>)

\* C24: a request with an empty reading history never gets to the search
\* and ends failed, with a response that carries an error and no
\* recommendations list.
C24_EmptyHistoryFails ==
    EmptyHistoryRequest =>
        /\ pc \notin {"search", "scoring", "respond"}
        /\ Finished => /\ pc = "failed"
                       /\ Response.status \in {400, 500}
                       /\ Has(Response.body, "error")
                       /\ ~Has(Response.body, "recommendations")


(***************************************************************************)
(* The selection UI (pages/index.js): the user's clicks and the arrivals   *)
(* of the responses, in any order.  A click runs the handler up to its     *)
(* fetch; an arrival runs the rest of it.                                  *)
(***************************************************************************)
MaxStarted == 3    \* requests the client starts in one session

CardAtomicHabits ==
    [id |-> 1, title |-> "Atomic Habits", author |-> "James Clear",
     notes |-> "Small habits compound", cover |-> "https://covers.example/1.jpg"]
CardBeloved ==
    [id |-> 3, title |-> "Beloved", author |-> "Toni Morrison",
     notes |-> "A novel", cover |-> Undefined]

\* the selections a library response can lead to
Selections == {<<CardAtomicHabits, CardBeloved>>, <<CardBeloved>>}

\* the body of the 200 answer of find-similar to a reference book
RecommendationsFor(book) ==
    <<[title |-> "Readers of " \o book.title \o " also admire",
       reason |-> "Because you enjoyed \"" \o book.title \o "\""]>>

\* the messages of the answers that are not 200, and of a fetch that rejects
FailureMessages == {"Failed to find recommendations", "fetch failed"}

InitUI ==
    /\ mode = "ui" /\ handlerName = "none"
    /\ req = None /\ nytKey = FALSE
    /\ pc = "ui"
    /\ Idle

\* index.js lines 16-21: the button of the start step (disabled while
\* loading, hidden under the error banner) or "Show different books"
UI_FetchRandomBooks ==
    /\ mode = "ui" /\ started < MaxStarted
    /\ \/ step = "start" /\ error = Null /\ ~loading
       \/ step = "selecting"
    /\ loading' = TRUE
    /\ error' = Null
    /\ inflight' = inflight \cup {[id |-> started + 1, kind |-> "library"]}
    /\ started' = started + 1
    /\ UNCHANGED <<mode, handlerName, req, pc, searchVars, res, log, failures,
                   readwiseToken, booksData, libraryBooks, booksWithHighlights, bi,
                   step, readwiseBooks, selectedBook, recommendations>>

\* index.js lines 22-64: the answer to a library request arrives
UI_LibraryResponse ==
    /\ mode = "ui"
    /\ \E r \in inflight :
         /\ r.kind = "library"
         /\ \/ \E books \in Selections :
                 /\ readwiseBooks' = books
                 /\ step' = "selecting"
                 /\ UNCHANGED error
            \/ /\ error' \in {[message |-> m] : m \in {"Readwise API error: 500", "fetch failed"}}
               /\ UNCHANGED <<readwiseBooks, step>>
         /\ inflight' = inflight \ {r}
    /\ loading' = FALSE
    /\ UNCHANGED <<mode, handlerName, req, pc, searchVars, res, log, failures,
                   readwiseToken, booksData, libraryBooks, booksWithHighlights, bi,
                   selectedBook, recommendations, started>>

\* index.js lines 69-74 and 202: a click on a book card of the selection
UI_FindSimilarBooks ==
    /\ mode = "ui" /\ started < MaxStarted
    /\ step = "selecting"
    /\ \E i \in 1..Len(readwiseBooks) :
         /\ selectedBook' = readwiseBooks[i]
         /\ inflight' = inflight \cup {[id |-> started + 1, kind |-> "similar",
                                        book |-> readwiseBooks[i]]}
    /\ loading' = TRUE
    /\ started' = started + 1
    /\ UNCHANGED <<mode, handlerName, req, pc, searchVars, res, log, failures,
                   readwiseToken, booksData, libraryBooks, booksWithHighlights, bi,
                   step, readwiseBooks, error, recommendations>>

\* index.js lines 84-99: the answer to a find-similar request arrives
UI_SimilarResponse ==
    /\ mode = "ui"
    /\ \E r \in inflight :
         /\ r.kind = "similar"
         /\ \/ /\ recommendations' = RecommendationsFor(r.book)
               /\ step' = "recommendations"
               /\ UNCHANGED error
            \/ /\ error' \in {[message |-> m] : m \in FailureMessages}
               /\ UNCHANGED <<recommendations, step>>
         /\ inflight' = inflight \ {r}
    /\ loading' = FALSE
    /\ UNCHANGED <<mode, handlerName, req, pc, searchVars, res, log, failures,
                   readwiseToken, booksData, libraryBooks, booksWithHighlights, bi,
                   readwiseBooks, selectedBook, started>>

\* index.js lines 102-108: "Try again" of the error banner, "Find more
\* recommendations" of the recommendations step
startOver ==
    /\ mode = "ui"
    /\ error # Null \/ step = "recommendations"
    /\ step' = "start"
    /\ readwiseBooks' = <<>>
    /\ selectedBook' = Null
    /\ recommendations' = <<>>
    /\ error' = Null
    /\ UNCHANGED <<mode, handlerName, req, pc, searchVars, res, log, failures,
                   readwiseToken, booksData, libraryBooks, booksWithHighlights, bi,
                   loading, inflight, started>>

UINext ==
    \/ UI_FetchRandomBooks
    \/ UI_LibraryResponse
    \/ UI_FindSimilarBooks
    \/ UI_SimilarResponse
    \/ startOver

SpecUI == InitUI /\ [][UINext]_vars


(***************************************************************************)
(* C25, C26, C27: the UI under overlapping requests                        *)
(***************************************************************************)
\* C25: whenever the step is 'recommendations', the recommendations on
\* display are the answer to the find-similar request made for the book on
\* display as selectedBook.
C25_RecommendationsOfSelectedBook ==
    (mode = "ui" /\ step = "recommendations") =>
        /\ selectedBook # Null
        /\ recommendations = RecommendationsFor(selectedBook)

\* C26: loading is true whenever a request is still in flight, and false
\* once every request that was started has been answered.
C26_LoadingTracksRequests ==
    mode = "ui" => (loading <=> inflight # {})

\* the second half alone: with no request in flight, loading is false
C26_IdleNotLoading ==
    (mode = "ui" /\ inflight = {}) => ~loading

\* C27: the recommendations are never on display together with an error.
C27_NoErrorWithRecommendations ==
    (mode = "ui" /\ step = "recommendations") => error = Null

\* the state startOver leaves
StartedOver ==
    /\ step = "start" /\ readwiseBooks = <<>> /\ selectedBook = Null
    /\ recommendations = <<>> /\ error = Null

\* the other half of C27: an answer that arrives after startOver does not
\* bring the recommendations step back.  The selection is empty only after
\* startOver, so the recommendations step with an empty selection is the
\* work of an answer that arrived after it.
C27_LateResponseIgnored ==
    (mode = "ui" /\ step = "recommendations") => readwiseBooks # <<>>


(***************************************************************************)
(* C28: the deduplicator on titles and authors that hold the separator     *)
(***************************************************************************)
\* candidates whose title or author holds a "-"
HyphenPool ==
    {[title |-> "Spider-Man", author |-> "Stan Lee", description |-> "the comic"],
     [title |-> "Spider", author |-> "Man-Stan Lee", description |-> "another book"],
     [title |-> " spider-man", author |-> "STAN LEE ", description |-> "the comic, again"],
     [title |-> "Deep Work", author |-> "Cal Newport", description |-> "on focus"]}

InitDedupeHyphen ==
    /\ mode = "dedupe" /\ handlerName = "none"
    /\ req = None /\ nytKey = FALSE
    /\ pc = "input"
    /\ allBooks \in ListsUpTo(HyphenPool, MaxListLen)
    /\ profile = None /\ qi = 0
    /\ nytBooks = <<>> /\ awardBooks = <<>> /\ criticsBooks = <<>> /\ googleBooks = <<>>
    /\ uniqueBooks = <<>> /\ scoredBooks = <<>> /\ recs = <<>>
    /\ usedFallback = FALSE /\ res = <<>> /\ log = <<>>
    /\ hits = [nyt |-> 0, google |-> 0] /\ failures = 0
    /\ LibraryIdle

SpecDedupeHyphen == InitDedupeHyphen /\ [][DedupeNext]_vars

\* the normalized title and the normalized author of a candidate
NormalizedPair(book) ==
    <<Trim(ToLowerCase(book.title)), Trim(ToLowerCase(book.author))>>

\* C28: dedupe removes a candidate only if an earlier candidate has the same
\* lower-cased trimmed title and the same lower-cased trimmed author: a
\* candidate whose normalized (title, author) pair differs from that of
\* every earlier candidate is kept, also when titles or authors hold a "-".
C28_MergesEqualPairsOnly ==
    (mode = "dedupe" /\ pc \in {"deduped", "again"}) =>
        \A i \in 1..Len(allBooks) :
            (\A j \in 1..(i - 1) : NormalizedPair(allBooks[j]) # NormalizedPair(allBooks[i]))
                => \E k \in 1..Len(uniqueBooks) : uniqueBooks[k] = allBooks[i]


(***************************************************************************)
(* C29: the answer of the reading-history endpoint                         *)
(***************************************************************************)
\* the entry without the highlights the handler added
WithoutHighlights(book) == [f \in DOMAIN book \ {"highlights"} |-> book[f]]

\* the handler has answered a library that arrived
LibraryAnswered ==
    handlerName = "readwise" /\ pc \in {"done", "client"} /\ booksData # None

\* the answer is 200, its results are the entries that pass the book filter
\* (the first 50 of them), once each and in the provider's order, and its
\* count is their number
AnswersAllBooks ==
    LibraryAnswered =>
        /\ Len(res) = 1 /\ res[1].status = 200
        /\ [i \in 1..Len(res[1].body.results) |-> WithoutHighlights(res[1].body.results[i])]
             = ServerFilter(booksData.results)
        /\ res[1].body.count = Len(res[1].body.results)

\* a highlights fetch that fails gives the entry an empty highlights list and
\* the loop goes on to the next entry
FailedHighlightsStep ==
    (handlerName = "readwise" /\ failures' = failures + 1) =>
        /\ Len(booksWithHighlights') = Len(booksWithHighlights) + 1
        /\ booksWithHighlights'[Len(booksWithHighlights')]
             = Merge(libraryBooks[bi], [highlights |-> <<>>])
        /\ bi' = bi + 1 /\ pc' = "highlights" /\ res' = res

\* C29: the successful answer of the reading-history endpoint holds every
\* entry that passes the book filter, up to the first 50, once and in the
\* provider's order, with count equal to the number of results, whichever
\* highlights fetches fail; an entry whose highlights fetch fails gets an
\* empty highlights list and the remaining fetches still take place.
C29_AllBooksAnswered ==
    []AnswersAllBooks /\ [][FailedHighlightsStep]_vars

\* an answer of two entries or more, of which one lost its highlights to a
\* failed fetch and another has some, for a library that held an entry the
\* filter rejects
C29_Witness ==
    /\ LibraryAnswered /\ pc = "done"
    /\ failures > 0
    /\ Len(res[1].body.results) >= 2
    /\ Len(res[1].body.results) < Len(booksData.results)
    /\ \E i \in 1..Len(res[1].body.results) :
         /\ Has(res[1].body.results[i], "highlights")
         /\ res[1].body.results[i].highlights # <<>>


(***************************************************************************)
(* C30: one response per request                                           *)
(***************************************************************************)
\* one request to one of the three handlers
InitAllHandlers == Init \/ InitLibrary
NextAllHandlers == Next \/ LibraryNext
SpecAllHandlers == InitAllHandlers /\ [][NextAllHandlers]_vars

\* the handler has returned
Answered == pc \in {"done", "failed", "client"}

\* how far the handler has come
PcRank(p) ==
    CASE p = "start" -> 0
      [] p \in {"nyt", "search", "highlights"} -> 1
      [] p = "award" -> 2
      [] p = "critics" -> 3
      [] p = "google" -> 4
      [] p = "scoring" -> 5
      [] p \in {"respond", "catch"} -> 6
      [] p \in {"done", "failed"} -> 7
      [] OTHER -> 8

\* the loop of the running stage has a bounded number of rounds
LoopBounded ==
    CASE handlerName = "find-similar" /\ pc = "nyt" -> qi <= Len(ListsToCheck(profile)) + 1
      [] handlerName = "find-similar" /\ pc = "google" -> qi <= Len(SearchTerms(profile)) + 1
      [] handlerName = "recommendations" /\ pc = "search" -> qi <= Len(RecentQueries(profile)) + 1
      [] handlerName = "readwise" /\ pc = "highlights" -> bi <= Len(libraryBooks) + 1
      [] OTHER -> TRUE

\* some step of the handler can be taken; the steps that only compute
\* (profiling, scoring, assembling the body) can be taken whenever the
\* handler is at them
CanStep ==
    \/ ENABLED FS_MethodNotAllowed \/ ENABLED FS_MissingReferenceBook
    \/ (handlerName = "find-similar" /\ pc = "start" /\ req.method = "POST"
          /\ Has(req.body, "referenceBook"))
    \/ ENABLED FS_NytSkip \/ ENABLED FS_NytFetch \/ ENABLED FS_NytReturn
    \/ ENABLED FS_Award \/ ENABLED FS_Critics \/ ENABLED FS_GoogleFetch
    \/ (handlerName = "find-similar" /\ pc = "google" /\ qi > Len(SearchTerms(profile)))
    \/ ENABLED FS_Respond
    \/ ENABLED R_MethodNotAllowed \/ ENABLED R_InvalidHistory
    \/ (handlerName = "recommendations" /\ pc = "start" /\ req.method = "POST"
          /\ Has(req.body, "readingHistory") /\ req.body.readingHistory.type = "array")
    \/ ENABLED R_Query \/ ENABLED R_Return
    \/ (handlerName = "recommendations" /\ pc \in {"scoring", "respond"})
    \/ ENABLED R_Catch
    \/ ENABLED RW_MethodNotAllowed \/ ENABLED RW_NoToken \/ ENABLED RW_FetchBooks
    \/ ENABLED RW_Highlights \/ ENABLED RW_Respond

OneResponse ==
    handlerName \in {"find-similar", "recommendations", "readwise"} =>
        /\ Len(res) <= 1
        /\ Answered <=> Len(res) = 1
        /\ Answered => res[1].status \in {405, 400, 200, 500}
        /\ ~Answered => CanStep
        /\ LoopBounded

\* a step of a handler goes forward, and it sends the response exactly when
\* it is the step on which the handler returns
ResponseStep ==
    handlerName \in {"find-similar", "recommendations", "readwise"} =>
        /\ \/ PcRank(pc') > PcRank(pc)
           \/ pc' = pc /\ qi' + bi' > qi + bi
        /\ IF ~Answered /\ Answered'
           THEN Len(res') = Len(res) + 1
           ELSE res' = res

\* C30: every request to the find-similar, recommendations and
\* reading-history handlers gets exactly one response, with status 405, 400,
\* 200 or 500: no path sends two responses, none returns without sending
\* one, a handler that has not answered can always take a step, and every
\* step brings it nearer to its return (its loops are bounded), so that it
\* answers once every fetch and delay has settled.
C30_ExactlyOneResponse == []OneResponse /\ [][ResponseStep]_vars

\* the recommendations handler answered from its catch block after searching
C30_Witness ==
    /\ handlerName = "recommendations" /\ pc = "failed"
    /\ Len(res) = 1 /\ res[1].status = 500
    /\ Len(log) > 0

=============================================================================
